---------------------------- MODULE Spec2Model ----------------------------
(***************************************************************************)
(* Model of the QHRF analysis GUI (src/ibm_job-analyzer.py): the           *)
(* experiment record parser, the assessment evaluator and the handlers     *)
(* that own the list of loaded experiments.                                *)
(*                                                                         *)
(* Conventions.                                                            *)
(*  - A JSON value is a record [t |-> tag, v |-> payload] with tag one of  *)
(*    "obj", "arr", "str", "num", "bool", "null".  An object is the        *)
(*    sequence of its <<key, value>> pairs in document order (json.load    *)
(*    yields an insertion-ordered dict), keys distinct.                    *)
(*  - Python strings are TLA+ strings; s[:n] is Take(s, n).                *)
(*  - Numbers are integers.  The metrics that the program compares with    *)
(*    decimal thresholds (3.0, 0.3, 0.4, 0.2, 0.9) are held in hundredths: *)
(*    shannon_entropy 3.2 is 320.  Counts, shots, depth and unique_states  *)
(*    are plain integers.  int and float are not told apart.               *)
(*  - An operator that models code which may raise returns the name of    *)
(*    the exception ("none" when nothing is raised) next to its value.     *)
(***************************************************************************)
EXTENDS Integers, Sequences, FiniteSets, TLC

VARIABLES
    experiments,         \* self.experiments: list of QHRFExperiment
    current_experiment,  \* self.current_experiment: a record or None
    status_var,          \* self.status_var: the status bar text
    progress,            \* self.progress: "running" | "stopped"
    dialog,              \* what the last handler showed: a messagebox or
                         \* the assessment window
    exp_listbox,         \* self.exp_listbox: the display texts
    data_text,           \* self.data_text: content of the data overview
    results_tree,        \* self.results_tree: rows of the results table
    comp_fig,            \* self.comp_fig: content of the comparison figure
    fig,                 \* self.fig: content of the visualization figure
    tab,                 \* self.notebook: index of the selected tab
    uncaught,            \* exception that escaped the last handler
    call,                \* the last handler run and what it was given
    threads,             \* the worker threads started and not yet ended
    after_queue,         \* the callbacks posted with root.after(0, ...)
    exported,            \* the files the last export_all wrote with savefig
    arg,                 \* harness: the arguments of the function applied
    ret                  \* harness: what the function returned

vars == <<experiments, current_experiment, status_var, progress, dialog,
          exp_listbox, data_text, results_tree, comp_fig, fig, tab,
          uncaught, call, threads, after_queue, exported, arg, ret>>

gui == <<experiments, current_experiment, status_var, progress, dialog,
         exp_listbox, data_text, results_tree, comp_fig, fig, tab,
         uncaught, call, threads, after_queue, exported>>

\* what the handlers of the data leave alone: the worker threads, their
\* callbacks and files, and the harness
untouched == <<threads, after_queue, exported, arg, ret>>

-----------------------------------------------------------------------------
(* Python values *)

None == [t |-> "None"]

Str(s) == [t |-> "str", v |-> s]

Num(n) == [t |-> "num", v |-> n]

Bool(b) == [t |-> "bool", v |-> b]

Null == [t |-> "null", v |-> 0]

Arr(s) == [t |-> "arr", v |-> s]

Obj(pairs) == [t |-> "obj", v |-> pairs]

Tuple(s) == [t |-> "tuple", v |-> s]

Min(a, b) == IF a < b THEN a ELSE b

\* s[:n] for a str or a list
Take(s, n) == SubSeq(s, 1, Min(Len(s), n))

\* s[i:] (0-based i) for a str
Drop(s, i) == SubSeq(s, i + 1, Len(s))

\* str.rfind('/'): the 0-based index of the last '/', -1 when there is none
RECURSIVE rfind_sep(_, _)
rfind_sep(p, i) ==
    IF i = 0 THEN -1
    ELSE IF SubSeq(p, i, i) = "/" THEN i - 1
    ELSE rfind_sep(p, i - 1)

\* `sub in s` for two str
IsSubstring(sub, s) ==
    \E i \in 1..(Len(s) - Len(sub) + 1) : SubSeq(s, i, i + Len(sub) - 1) = sub

\* dict: `key in d`
HasKey(pairs, key) == \E i \in 1..Len(pairs) : pairs[i][1] = key

\* dict: d[key], for a key that is present
Lookup(pairs, key) ==
    pairs[CHOOSE i \in 1..Len(pairs) : pairs[i][1] = key][2]

\* dict.get(key): the default left out, so an absent key yields None
GetNoDefault(pairs, key, default) ==
    IF HasKey(pairs, key) THEN Lookup(pairs, key) ELSE None

\* dict.get(key, default)
Get(pairs, key, default) ==
    IF HasKey(pairs, key) THEN Lookup(pairs, key) ELSE default

\* the characters of a str, as tuple(str) yields them
RECURSIVE CharsOf(_)
CharsOf(s) ==
    IF Len(s) = 0 THEN <<>>
    ELSE <<Str(SubSeq(s, 1, 1))>> \o CharsOf(Drop(s, 1))

\* the keys of a dict, as tuple(dict) yields them
KeysOf(pairs) == [i \in 1..Len(pairs) |-> Str(pairs[i][1])]

-----------------------------------------------------------------------------
(* parse_experiment_data *)

NameLen == 12

\* the whole path taken for the file name
basename_whole_path(p) == p

\* os.path.basename (posixpath): the part after the last '/'
basename(p) == Drop(p, rfind_sep(p, Len(p)) + 1)

\* `'experiment_result' in data`: membership for a dict (keys), a list
\* (elements) and a str (substring); a TypeError for anything else
InRaises(data) == data.t \in {"num", "bool", "null"}

HasWrapper(data) ==
    CASE data.t = "obj" -> HasKey(data.v, "experiment_result")
      [] data.t = "arr" ->
            \E i \in 1..Len(data.v) : data.v[i] = Str("experiment_result")
      [] data.t = "str" -> IsSubstring("experiment_result", data.v)
      [] OTHER -> FALSE

\* data['experiment_result'] when the membership test succeeded: a list or
\* a str cannot be indexed by a str
UnwrapRaises(data) == HasWrapper(data) /\ data.t # "obj"

\* the wrapper key never unwrapped
exp_data_top_level(data) == data

exp_data_of(data) ==
    IF HasWrapper(data) THEN Lookup(data.v, "experiment_result") ELSE data

\* x[:12]: a str and a list can be sliced, nothing else can
SliceRaises(x) == x.t \notin {"str", "arr"}

\* the slice left out
SliceAll(x) == x

Slice12(x) == [t |-> x.t, v |-> Take(x.v, NameLen)]

\* tuple(x): any iterable
TupleRaises(x) == x.t \notin {"arr", "str", "obj"}

TupleOf(x) ==
    CASE x.t = "arr" -> Tuple(x.v)
      [] x.t = "str" -> Tuple(CharsOf(x.v))
      [] x.t = "obj" -> Tuple(KeysOf(x.v))

\* the exception caught by the try block ("none": the record is returned)
ParseException(data, file_path) ==
    IF InRaises(data) THEN "TypeError"
    ELSE IF UnwrapRaises(data) THEN "TypeError"
    ELSE LET exp_data == exp_data_of(data) IN
         IF exp_data.t # "obj" THEN "AttributeError"
         ELSE IF SliceRaises(Get(exp_data.v, "job_id", Str(basename(file_path))))
              THEN "TypeError"
         ELSE IF TupleRaises(Get(exp_data.v, "dominant_state",
                                 Arr(<<Str("0000"), Num(0)>>)))
              THEN "TypeError"
         ELSE "none"

QHRFExperiment(exp_data, file_path) ==
    LET d == exp_data.v
        file_name == basename(file_path)
    IN [t |-> "QHRFExperiment",
        name |-> Slice12(Get(d, "job_id", Str(file_name))),
        job_id |-> Get(d, "job_id", Str("Unknown")),
        backend |-> Get(d, "backend_name", Str("Unknown")),
        shots |-> Get(d, "shots", Num(0)),
        execution_time |-> Get(d, "execution_time", Num(0)),
        circuit_depth |-> Get(d, "circuit_depth", Num(0)),
        raw_counts |-> Get(d, "raw_counts", Obj(<<>>)),
        shannon_entropy |-> Get(d, "shannon_entropy", Num(0)),
        coherence_score |-> Get(d, "coherence_score", Num(0)),
        qhrf_signature_strength |-> Get(d, "qhrf_signature_strength", Num(0)),
        classical_suppression |-> Get(d, "classical_suppression", Num(0)),
        dominant_state |->
            TupleOf(Get(d, "dominant_state", Arr(<<Str("0000"), Num(0)>>))),
        unique_states |-> Get(d, "unique_states", Num(0)),
        parity_balance |-> Get(d, "parity_balance", Num(0)),
        participation_ratio |-> Get(d, "participation_ratio", Num(0)),
        file_path |-> file_path]

\* `except TypeError`: an AttributeError is let through
ExceptCatchesTypeError(exc) == exc = "TypeError"

\* `except Exception`: every exception the try block can raise is caught
ExceptCatches(exc) == TRUE

\* an exception that leaves a function, as its caller sees it
Raised(exc) == [t |-> "raised", v |-> exc]

parse_experiment_data(data, file_path) ==
    LET exc == ParseException(data, file_path) IN
    IF exc = "none" THEN QHRFExperiment(exp_data_of(data), file_path)
    ELSE IF ExceptCatches(exc) THEN None
    ELSE Raised(exc)

-----------------------------------------------------------------------------
(* display_experiment_data, update_results_display, qhrf_assessment *)

EntropyThreshold == 300

CoherenceThreshold == 30

SignatureThreshold == 40

DominanceThreshold == 20

SuppressionThreshold == 90

AllStates == 16

ExcellentRate == 9000

GoodRate == 7500

\* a value the number formats (',', '.2f', '.4f') and the comparisons accept
IsNumber(x) == x.t = "num"

\* bool(x), as `if experiment.raw_counts:` takes it
Truthy(x) ==
    CASE x.t \in {"obj", "arr", "str", "tuple"} -> Len(x.v) > 0
      [] x.t = "num" -> x.v # 0
      [] x.t = "bool" -> x.v
      [] OTHER -> FALSE

\* x == n for an int n: never raises, and is False for a value of another type
NumEq(x, n) == x.t = "num" /\ x.v = n

\* sum(d.values())
RECURSIVE SumCounts(_)
SumCounts(pairs) ==
    IF Len(pairs) = 0 THEN 0
    ELSE pairs[1][2].v + SumCounts(Tail(pairs))

\* sorted(items, key=lambda x: x[1], reverse=True): Python's sort is stable,
\* also with reverse=True, so an item goes after every item already placed
\* whose count is at least its own
InsertByCount(sorted, item) ==
    LET k == Cardinality({i \in 1..Len(sorted) : sorted[i][2].v >= item[2].v})
    IN SubSeq(sorted, 1, k) \o <<item>> \o SubSeq(sorted, k + 1, Len(sorted))

RECURSIVE SortByCount(_)
SortByCount(pairs) ==
    IF Len(pairs) = 0 THEN <<>>
    ELSE InsertByCount(SortByCount(SubSeq(pairs, 1, Len(pairs) - 1)),
                       pairs[Len(pairs)])

\* the significance suffix of a row of the state distribution
significance(state) ==
    IF state = "0101" THEN "PRIMARY QHRF"
    ELSE IF state \in {"0100", "1101"} THEN "QHRF SIGNATURE"
    ELSE IF state \in {"0000", "1111"} THEN "CLASSICAL"
    ELSE ""

\* the rows of the detailed state distribution; prob is count / total, kept
\* as the exact fraction <<count, total>>
state_rows(raw_counts) ==
    LET total == SumCounts(raw_counts.v)
        sorted_states == SortByCount(raw_counts.v)
    IN [i \in 1..Len(sorted_states) |->
          [rank |-> i,
           state |-> sorted_states[i][1],
           count |-> sorted_states[i][2].v,
           prob |-> <<sorted_states[i][2].v, total>>,
           significance |-> significance(sorted_states[i][1])]]

\* the six pairs with the entropy threshold met by equality (>= for >)
assessments_inclusive(e) ==
    << <<"Shannon Entropy > 3.0", e.shannon_entropy.v >= EntropyThreshold>>,
       <<"Coherence Score > 0.3", e.coherence_score.v > CoherenceThreshold>>,
       <<"QHRF Signature > 0.4",
         e.qhrf_signature_strength.v > SignatureThreshold>>,
       <<"|0101> Dominance > 0.2",
         e.dominant_state.v[2].v > DominanceThreshold>>,
       <<"Classical Suppression > 0.9",
         e.classical_suppression.v > SuppressionThreshold>>,
       <<"All 16 States Observed", NumEq(e.unique_states, AllStates)>> >>

\* the six (criterion, score) pairs of the data overview
assessments(e) ==
    << <<"Shannon Entropy > 3.0", e.shannon_entropy.v > EntropyThreshold>>,
       <<"Coherence Score > 0.3", e.coherence_score.v > CoherenceThreshold>>,
       <<"QHRF Signature > 0.4",
         e.qhrf_signature_strength.v > SignatureThreshold>>,
       <<"|0101> Dominance > 0.2",
         e.dominant_state.v[2].v > DominanceThreshold>>,
       <<"Classical Suppression > 0.9",
         e.classical_suppression.v > SuppressionThreshold>>,
       <<"All 16 States Observed", NumEq(e.unique_states, AllStates)>> >>

\* sum(score for _, score in pairs)
CountPassed(pairs) == Cardinality({i \in 1..Len(pairs) : pairs[i][2]})

\* (passed // total_tests) * 100: the quotient taken in integers
success_rate_floor_division(passed, total_tests) ==
    (passed \div total_tests) * 10000

\* (passed / total_tests) * 100, in hundredths of a percent (truncated)
success_rate(passed, total_tests) == (passed * 10000) \div total_tests

\* the performance line chosen by the if / elif / else on success_rate
performance_level(rate) ==
    IF rate >= ExcellentRate THEN "EXCELLENT QHRF PERFORMANCE"
    ELSE IF rate >= GoodRate THEN "GOOD QHRF PERFORMANCE"
    ELSE "MODERATE QHRF PERFORMANCE"

\* the exception display_experiment_data raises while it builds its text
\* ("none": the text is inserted)
DisplayException(e) ==
    IF \E f \in {"shots", "execution_time", "shannon_entropy",
                 "coherence_score", "qhrf_signature_strength",
                 "classical_suppression", "parity_balance",
                 "participation_ratio"} : ~IsNumber(e[f])
    THEN "ValueError"
    ELSE IF Len(e.dominant_state.v) < 2 THEN "IndexError"
    ELSE IF ~IsNumber(e.dominant_state.v[2]) THEN "ValueError"
    ELSE IF ~Truthy(e.raw_counts) THEN "none"
    ELSE IF e.raw_counts.t # "obj" THEN "AttributeError"
    ELSE IF \E i \in 1..Len(e.raw_counts.v) : ~IsNumber(e.raw_counts.v[i][2])
         THEN "TypeError"
    ELSE IF SumCounts(e.raw_counts.v) = 0 THEN "ZeroDivisionError"
    ELSE "none"

\* what display_experiment_data inserts into the data tab
display_text(e) ==
    LET scores == assessments(e)
        passed == CountPassed(scores)
        total_tests == Len(scores)
        rate == success_rate(passed, total_tests)
    IN [experiment |-> e,
        entropy_efficiency |-> <<e.shannon_entropy.v, 4>>,
        rows |-> IF Truthy(e.raw_counts) THEN state_rows(e.raw_counts)
                 ELSE <<>>,
        assessments |-> scores,
        passed |-> passed,
        total_tests |-> total_tests,
        success_rate |-> rate,
        performance |-> performance_level(rate)]

EmptyText == [experiment |-> None]

\* the data tab after display_experiment_data: deleted first, and filled
\* only when building the text raised nothing
data_text_after(e) ==
    IF DisplayException(e) = "none" THEN display_text(e) ELSE EmptyText

Rating(value, high, mid, names) ==
    IF value > high THEN names[1] ELSE IF value > mid THEN names[2]
    ELSE names[3]

\* the (metric, assessment) rows update_results_display inserts
results_rows(e) ==
    << <<"Shannon Entropy",
         Rating(e.shannon_entropy.v, 300, 250,
                <<"Excellent", "Good", "Moderate">>)>>,
       <<"Coherence Score",
         Rating(e.coherence_score.v, 30, 20,
                <<"Excellent", "Good", "Moderate">>)>>,
       <<"QHRF Signature",
         Rating(e.qhrf_signature_strength.v, 40, 25,
                <<"Strong", "Moderate", "Weak">>)>>,
       <<"Classical Suppression",
         Rating(e.classical_suppression.v, 90, 80,
                <<"Excellent", "Good", "Moderate">>)>>,
       <<"|0101> Dominance",
         Rating(e.dominant_state.v[2].v, 20, 10,
                <<"Strong", "Moderate", "Weak">>)>>,
       <<"Unique States",
         IF NumEq(e.unique_states, 16) THEN "Complete"
         ELSE IF e.unique_states.v > 12 THEN "Good" ELSE "Limited">>,
       <<"Parity Balance",
         IF e.parity_balance.v < 10 THEN "Excellent"
         ELSE IF e.parity_balance.v < 20 THEN "Good" ELSE "Moderate">>,
       <<"Participation Ratio",
         Rating(e.participation_ratio.v, 800, 400,
                <<"High", "Moderate", "Low">>)>> >>

\* the six (criterion, score) pairs of the assessment dialog
criteria(exp) ==
    << <<"Shannon Entropy > 3.0", exp.shannon_entropy.v > EntropyThreshold>>,
       <<"Coherence Score > 0.3", exp.coherence_score.v > CoherenceThreshold>>,
       <<"QHRF Signature > 0.4",
         exp.qhrf_signature_strength.v > SignatureThreshold>>,
       <<"|0101> Dominance > 0.2",
         exp.dominant_state.v[2].v > DominanceThreshold>>,
       <<"Classical Suppression > 0.9",
         exp.classical_suppression.v > SuppressionThreshold>>,
       <<"All 16 States Observed", NumEq(exp.unique_states, AllStates)>> >>

\* the exception qhrf_assessment raises while it evaluates its criteria
AssessmentException(exp) ==
    IF \E f \in {"shannon_entropy", "coherence_score",
                 "qhrf_signature_strength"} : ~IsNumber(exp[f])
    THEN "TypeError"
    ELSE IF Len(exp.dominant_state.v) < 2 THEN "IndexError"
    ELSE IF ~IsNumber(exp.dominant_state.v[2]) THEN "TypeError"
    ELSE IF ~IsNumber(exp.classical_suppression) THEN "TypeError"
    ELSE "none"

\* the text of the assessment window
assessment_text(exp) ==
    LET scores == criteria(exp)
        passed == CountPassed(scores)
        rate == success_rate(passed, Len(scores))
    IN [experiment |-> exp.name,
        criteria |-> scores,
        passed |-> passed,
        total |-> Len(scores),
        success_rate |-> rate,
        performance |-> performance_level(rate)]

\* the six pairs of the dashboard with the coherence threshold met by
\* equality (>= for >)
dashboard_criteria_inclusive(exp) ==
    << <<"Entropy > 3.0", exp.shannon_entropy.v > EntropyThreshold>>,
       <<"Coherence > 0.3", exp.coherence_score.v >= CoherenceThreshold>>,
       <<"QHRF Sig > 0.4", exp.qhrf_signature_strength.v > SignatureThreshold>>,
       <<"|0101> > 0.2", exp.dominant_state.v[2].v > DominanceThreshold>>,
       <<"Cl. Supp > 0.9", exp.classical_suppression.v > SuppressionThreshold>>,
       <<"16 States", NumEq(exp.unique_states, AllStates)>> >>

\* the six (criterion, score) pairs of the assessment panel of the dashboard
dashboard_criteria(exp) ==
    << <<"Entropy > 3.0", exp.shannon_entropy.v > EntropyThreshold>>,
       <<"Coherence > 0.3", exp.coherence_score.v > CoherenceThreshold>>,
       <<"QHRF Sig > 0.4", exp.qhrf_signature_strength.v > SignatureThreshold>>,
       <<"|0101> > 0.2", exp.dominant_state.v[2].v > DominanceThreshold>>,
       <<"Cl. Supp > 0.9", exp.classical_suppression.v > SuppressionThreshold>>,
       <<"16 States", NumEq(exp.unique_states, AllStates)>> >>

\* the last line of the panel, chosen by the if / elif / else on success_rate
dashboard_level(rate) ==
    IF rate >= ExcellentRate THEN "EXCELLENT"
    ELSE IF rate >= GoodRate THEN "GOOD"
    ELSE "MODERATE"

\* the text of the assessment panel (ax5) of the dashboard
dashboard_assessment_text(exp) ==
    LET scores == dashboard_criteria(exp)
        passed == CountPassed(scores)
        rate == success_rate(passed, Len(scores))
    IN [experiment |-> exp.name,
        criteria |-> scores,
        passed |-> passed,
        total |-> Len(scores),
        success_rate |-> rate,
        performance |-> dashboard_level(rate)]

-----------------------------------------------------------------------------
(* the files the dialogs can return *)

MaxExperiments == 3

MaxBatch == 2

\* open() or json.load() raises on this file
Unreadable == [t |-> "unreadable", v |-> 0]

FieldKeys ==
    <<"job_id", "backend_name", "shots", "execution_time", "circuit_depth",
      "raw_counts", "shannon_entropy", "coherence_score",
      "qhrf_signature_strength", "classical_suppression", "dominant_state",
      "unique_states", "parity_balance", "participation_ratio">>

\* a complete document: every recognized key with a value that is not the
\* key's default
FullPairs(job_id) ==
    << <<"job_id", Str(job_id)>>,
       <<"backend_name", Str("ibm_torino")>>,
       <<"shots", Num(100)>>,
       <<"execution_time", Num(1250)>>,
       <<"circuit_depth", Num(42)>>,
       <<"raw_counts", Obj(<< <<"0101", Num(40)>>, <<"0100", Num(10)>>,
                              <<"1111", Num(50)>> >>)>>,
       <<"shannon_entropy", Num(320)>>,
       <<"coherence_score", Num(35)>>,
       <<"qhrf_signature_strength", Num(45)>>,
       <<"classical_suppression", Num(95)>>,
       <<"dominant_state", Arr(<<Str("0101"), Num(40)>>)>>,
       <<"unique_states", Num(16)>>,
       <<"parity_balance", Num(5)>>,
       <<"participation_ratio", Num(900)>> >>

\* the pairs of a document whose keys are in P, in document order
WithKeys(pairs, P) == SelectSeq(pairs, LAMBDA kv : kv[1] \in P)

FileGood ==
    [path |-> "/data/run_a.json",
     content |-> Obj(FullPairs("JOB1234567890XYZ"))]

FileWrapped ==
    [path |-> "/data/qhrf/experiment_0002.json",
     content |->
        Obj(<< <<"experiment_result",
                 Obj(<< <<"coherence_score", Num(30)>>,
                        <<"shannon_entropy", Num(310)>>,
                        <<"qhrf_signature_strength", Num(41)>>,
                        <<"classical_suppression", Num(91)>>,
                        <<"dominant_state", Arr(<<Str("1111"), Num(50)>>)>>,
                        <<"unique_states", Num(16)>> >>)>>,
               <<"job_id", Str("SIBLING")>> >>)]

FileZero ==
    [path |-> "zero.json",
     content |-> Obj(<< <<"raw_counts", Obj(<< <<"0101", Num(0)>> >>)>> >>)]

FileShort ==
    [path |-> "short.json",
     content |-> Obj(<< <<"dominant_state", Arr(<<Str("0101")>>)>> >>)]

FileArray == [path |-> "/data/list.json", content |-> Arr(<<Num(1)>>)]

FileBroken == [path |-> "/data/broken.json", content |-> Unreadable]

Files == {FileGood, FileZero, FileArray, FileBroken}

\* what the file dialogs can return
Paths == {f.path : f \in Files}

\* the file system: the content found at a path
Content == [p \in Paths |-> (CHOOSE f \in Files : f.path = p).content]

\* the selections of a multi-file dialog: up to n distinct paths, in order
Selections(n) ==
    {s \in UNION {[1..k -> Paths] : k \in 0..n} :
        \A i, j \in DOMAIN s : i # j => s[i] # s[j]}

BatchSelections == Selections(MaxBatch)

-----------------------------------------------------------------------------
(* the handlers *)

NoDialog == [kind |-> "none", title |-> "", message |-> ""]

showerror(message) == [kind |-> "error", title |-> "Error", message |-> message]

showwarning(message) ==
    [kind |-> "warning", title |-> "Warning", message |-> message]

\* the Toplevel window qhrf_assessment opens, with its text
assessment_window(exp) ==
    [kind |-> "assessment", title |-> "QHRF Assessment Results",
     message |-> assessment_text(exp)]

EmptyFigure == [kind |-> "empty"]

\* update_experiment_list: one "{name} ({backend})" per experiment
listbox_of(exps) ==
    [i \in 1..Len(exps) |-> exps[i].name.v \o " (" \o exps[i].backend.v \o ")"]

\* with open(...) / json.load(...) followed by parse_experiment_data: the
\* record, or None when the file cannot be read or parsed
load_file(file_path) ==
    IF Content[file_path] = Unreadable THEN None
    ELSE parse_experiment_data(Content[file_path], file_path)

\* load_file of every path, evaluated once
Loaded == [p \in Paths |-> load_file(p)]

\* the loop left at the first file that fails (the try around the loop
\* instead of inside it)
RECURSIVE loaded_records_until_failure(_)
loaded_records_until_failure(file_paths) ==
    IF Len(file_paths) = 0 THEN <<>>
    ELSE LET e == load_file(Head(file_paths))
         IN IF e = None THEN <<>>
            ELSE <<e>> \o loaded_records_until_failure(Tail(file_paths))

\* the loop appending with insert(0, ...): the records in reverse order
RECURSIVE loaded_records_reversed(_)
loaded_records_reversed(file_paths) ==
    IF Len(file_paths) = 0 THEN <<>>
    ELSE LET e == load_file(Head(file_paths))
         IN loaded_records_reversed(Tail(file_paths))
            \o (IF e = None THEN <<>> ELSE <<e>>)

\* the records the loop of load_multiple_experiments appends, in order
RECURSIVE loaded_records(_)
loaded_records(file_paths) ==
    IF Len(file_paths) = 0 THEN <<>>
    ELSE LET e == Loaded[Head(file_paths)]
         IN (IF e = None THEN <<>> ELSE <<e>>)
            \o loaded_records(Tail(file_paths))

InitGui ==
    /\ experiments = <<>>
    /\ current_experiment = None
    /\ status_var = "Ready - Load QHRF experiment data to begin analysis"
    /\ progress = "stopped"
    /\ dialog = NoDialog
    /\ exp_listbox = <<>>
    /\ data_text = EmptyText
    /\ results_tree = <<>>
    /\ comp_fig = EmptyFigure
    /\ fig = EmptyFigure
    /\ tab = 0
    /\ uncaught = "none"
    /\ call = [op |-> "__init__"]
    /\ threads = <<>>
    /\ after_queue = <<>>
    /\ exported = <<>>

\* load_experiment with the dialog cancelled: file_path is empty
load_experiment_cancel ==
    /\ call' = [op |-> "load_experiment", file_path |-> ""]
    /\ dialog' = NoDialog
    /\ uncaught' = "none"
    /\ UNCHANGED <<experiments, current_experiment, status_var, progress,
                   exp_listbox, data_text, results_tree, comp_fig, fig, tab>>

load_experiment(file_path) ==
    LET experiment == Loaded[file_path] IN
    /\ experiment # None => Len(experiments) < MaxExperiments
    /\ call' = [op |-> "load_experiment", file_path |-> file_path]
    /\ uncaught' = "none"
    /\ progress' = "stopped"
    /\ UNCHANGED <<comp_fig, fig, tab>>
    /\ IF Content[file_path] = Unreadable
       THEN /\ dialog' = showerror("Failed to load file: OSError")
            /\ status_var' = "Error loading file"
            /\ UNCHANGED <<experiments, current_experiment, exp_listbox,
                           data_text, results_tree>>
       ELSE IF experiment = None
       THEN /\ dialog' = showerror("Could not parse experiment data from file")
            /\ status_var' = "Error loading file"
            /\ UNCHANGED <<experiments, current_experiment, exp_listbox,
                           data_text, results_tree>>
       ELSE /\ experiments' = Append(experiments, experiment)
            /\ exp_listbox' = listbox_of(experiments')
            /\ current_experiment' = experiment
            /\ data_text' = data_text_after(experiment)
            /\ IF DisplayException(experiment) # "none"
               THEN /\ dialog' = showerror("Failed to load file: "
                                           \o DisplayException(experiment))
                    /\ status_var' = "Error loading file"
                    /\ UNCHANGED results_tree
               ELSE /\ dialog' = NoDialog
                    /\ results_tree' = results_rows(experiment)
                    /\ status_var' = "Loaded: " \o experiment.name.v

load_multiple_experiments(file_paths) ==
    LET loaded == loaded_records(file_paths)
        loaded_count == Len(loaded)
    IN
    /\ Len(experiments) + loaded_count <= MaxExperiments
    /\ call' = [op |-> "load_multiple_experiments", file_paths |-> file_paths]
    /\ dialog' = NoDialog
    /\ UNCHANGED <<comp_fig, fig, tab>>
    /\ IF Len(file_paths) = 0
       THEN /\ uncaught' = "none"
            /\ UNCHANGED <<experiments, current_experiment, status_var,
                           progress, exp_listbox, data_text, results_tree>>
       ELSE /\ experiments' = experiments \o loaded
            /\ exp_listbox' = listbox_of(experiments')
            /\ IF loaded_count = 0
               THEN /\ uncaught' = "none"
                    /\ status_var' = "Loaded 0 experiments"
                    /\ progress' = "stopped"
                    /\ UNCHANGED <<current_experiment, data_text, results_tree>>
               ELSE LET last == experiments'[Len(experiments')] IN
                    /\ current_experiment' = last
                    /\ data_text' = data_text_after(last)
                    /\ uncaught' = DisplayException(last)
                    /\ IF DisplayException(last) # "none"
                       THEN /\ status_var' = "Loading "
                                   \o ToString(Len(file_paths))
                                   \o " experiment files..."
                            /\ progress' = "running"
                            /\ UNCHANGED results_tree
                       ELSE /\ results_tree' = results_rows(last)
                            /\ status_var' = "Loaded "
                                   \o ToString(loaded_count) \o " experiments"
                            /\ progress' = "stopped"

\* the selection taking the record out of the list: experiments.pop(idx)
\* for experiments[idx]
on_experiment_select_popping(idx) ==
    /\ call' = [op |-> "on_experiment_select", idx |-> idx]
    /\ dialog' = NoDialog
    /\ UNCHANGED <<exp_listbox, progress, comp_fig, fig, tab>>
    /\ IF idx = 0
       THEN /\ uncaught' = "none"
            /\ UNCHANGED <<experiments, current_experiment, data_text,
                           results_tree, status_var>>
       ELSE LET e == experiments[idx] IN
            /\ experiments' = SubSeq(experiments, 1, idx - 1)
                              \o SubSeq(experiments, idx + 1, Len(experiments))
            /\ current_experiment' = e
            /\ data_text' = data_text_after(e)
            /\ uncaught' = DisplayException(e)
            /\ IF DisplayException(e) # "none"
               THEN UNCHANGED <<results_tree, status_var>>
               ELSE /\ results_tree' = results_rows(e)
                    /\ status_var' = "Selected: " \o e.name.v

\* on_experiment_select: idx is the 1-based selected row, 0 for no selection
on_experiment_select(idx) ==
    /\ call' = [op |-> "on_experiment_select", idx |-> idx]
    /\ dialog' = NoDialog
    /\ UNCHANGED <<experiments, exp_listbox, progress, comp_fig, fig, tab>>
    /\ IF idx = 0
       THEN /\ uncaught' = "none"
            /\ UNCHANGED <<current_experiment, data_text, results_tree,
                           status_var>>
       ELSE LET e == experiments[idx] IN
            /\ current_experiment' = e
            /\ data_text' = data_text_after(e)
            /\ uncaught' = DisplayException(e)
            /\ IF DisplayException(e) # "none"
               THEN UNCHANGED <<results_tree, status_var>>
               ELSE /\ results_tree' = results_rows(e)
                    /\ status_var' = "Selected: " \o e.name.v

refresh_display ==
    /\ call' = [op |-> "refresh_display"]
    /\ dialog' = NoDialog
    /\ UNCHANGED <<experiments, current_experiment, exp_listbox, progress,
                   comp_fig, fig, tab>>
    /\ IF current_experiment = None
       THEN /\ uncaught' = "none"
            /\ UNCHANGED <<data_text, results_tree, status_var>>
       ELSE /\ data_text' = data_text_after(current_experiment)
            /\ uncaught' = DisplayException(current_experiment)
            /\ IF DisplayException(current_experiment) # "none"
               THEN UNCHANGED <<results_tree, status_var>>
               ELSE /\ results_tree' = results_rows(current_experiment)
                    /\ status_var' = "Display refreshed"

qhrf_assessment ==
    /\ call' = [op |-> "qhrf_assessment"]
    /\ UNCHANGED <<experiments, current_experiment, exp_listbox, progress,
                   data_text, results_tree, status_var, comp_fig, fig, tab>>
    /\ IF current_experiment = None
       THEN /\ dialog' = showwarning("Please load an experiment first")
            /\ uncaught' = "none"
       ELSE /\ uncaught' = AssessmentException(current_experiment)
            /\ IF AssessmentException(current_experiment) # "none"
               THEN dialog' = NoDialog
               ELSE dialog' = assessment_window(current_experiment)

\* clear_all without `self.current_experiment = None`
clear_all_keeping_current ==
    /\ call' = [op |-> "clear_all"]
    /\ dialog' = NoDialog
    /\ uncaught' = "none"
    /\ experiments' = <<>>
    /\ exp_listbox' = listbox_of(experiments')
    /\ data_text' = EmptyText
    /\ results_tree' = <<>>
    /\ fig' = EmptyFigure
    /\ comp_fig' = EmptyFigure
    /\ status_var' = "All data cleared"
    /\ UNCHANGED <<current_experiment, progress, tab>>

clear_all ==
    /\ call' = [op |-> "clear_all"]
    /\ dialog' = NoDialog
    /\ uncaught' = "none"
    /\ experiments' = <<>>
    /\ current_experiment' = None
    /\ exp_listbox' = listbox_of(experiments')
    /\ data_text' = EmptyText
    /\ results_tree' = <<>>
    /\ fig' = EmptyFigure
    /\ comp_fig' = EmptyFigure
    /\ status_var' = "All data cleared"
    /\ UNCHANGED <<progress, tab>>

-----------------------------------------------------------------------------
(* compare_experiments, plot_timeline *)

\* the guard as `< 1`: one record is taken for enough
MinCompareOne == 2 - 1

MinCompare == 2

RECURSIVE SumSeq(_)
SumSeq(s) == IF Len(s) = 0 THEN 0 ELSE Head(s) + SumSeq(Tail(s))

Squares(s) == [i \in 1..Len(s) |-> s[i] * s[i]]

\* Len(s)^2 times the second moment about 0: the mean not subtracted
SecondMomentTimesN2(s) == Len(s) * SumSeq(Squares(s))

\* Len(s)^2 times the population variance of s (np.std squared), exactly
VarTimesN2(s) == Len(s) * SumSeq(Squares(s)) - SumSeq(s) * SumSeq(s)

\* np.std(s) / np.mean(s) < pct / 100.  The quotient is sqrt(VarTimesN2) /
\* SumSeq; numpy divides by a zero mean without raising and yields nan or
\* inf, which no comparison accepts
cv_below(s, pct) ==
    IF SumSeq(s) = 0 THEN FALSE
    ELSE IF SumSeq(s) < 0 THEN TRUE
    ELSE VarTimesN2(s) * 10000 < pct * pct * SumSeq(s) * SumSeq(s)

\* the "CV: ...%" line: the quotient squared as an exact fraction, or the
\* nan / inf numpy yields for a zero mean
cv_of(s) ==
    IF SumSeq(s) # 0
    THEN [kind |-> "finite", squared |-> <<VarTimesN2(s), SumSeq(s) * SumSeq(s)>>]
    ELSE IF VarTimesN2(s) = 0 THEN [kind |-> "nan", squared |-> <<0, 0>>]
    ELSE [kind |-> "inf", squared |-> <<VarTimesN2(s), 0>>]

\* the tier without its middle band
reproducibility_two_tiers(coherence_scores) ==
    IF cv_below(coherence_scores, 10) THEN "EXCELLENT" ELSE "MODERATE"

reproducibility(coherence_scores) ==
    IF cv_below(coherence_scores, 10) THEN "EXCELLENT"
    ELSE IF cv_below(coherence_scores, 20) THEN "GOOD"
    ELSE "MODERATE"

\* exp.dominant_state[1], whatever the dominant label
dominant_prob_any_label(exp) == exp.dominant_state.v[2].v

\* exp.dominant_state[1] if exp.dominant_state[0] == '0101' else 0
dominant_prob(exp) ==
    IF exp.dominant_state.v[1] = Str("0101") THEN exp.dominant_state.v[2].v
    ELSE 0

\* the exception compare_experiments raises while it extracts its series
CompareException(exps) ==
    IF \E i \in 1..Len(exps) :
          \/ Len(exps[i].dominant_state.v) = 0
          \/ /\ Len(exps[i].dominant_state.v) = 1
             /\ exps[i].dominant_state.v[1] = Str("0101")
    THEN "IndexError"
    ELSE "none"

series_stats(s) ==
    [mean |-> <<SumSeq(s), Len(s)>>,
     variance |-> <<VarTimesN2(s), Len(s) * Len(s)>>,
     cv |-> cv_of(s)]

comparison_figure(exps) ==
    LET coherence_scores == [i \in 1..Len(exps) |-> exps[i].coherence_score.v]
        dominant_probs == [i \in 1..Len(exps) |-> dominant_prob(exps[i])]
    IN [kind |-> "comparison",
        exp_names |-> [i \in 1..Len(exps) |-> exps[i].name],
        coherence_scores |-> coherence_scores,
        entropies |-> [i \in 1..Len(exps) |-> exps[i].shannon_entropy.v],
        qhrf_signatures |->
            [i \in 1..Len(exps) |-> exps[i].qhrf_signature_strength.v],
        dominant_probs |-> dominant_probs,
        coherence |-> series_stats(coherence_scores),
        dominance |-> series_stats(dominant_probs),
        reproducibility |-> reproducibility(coherence_scores)]

\* the figure as an exception leaves it: cleared, with four empty axes
BlankAxes == [kind |-> "blank"]

timeline_figure(exps) ==
    [kind |-> "timeline",
     x |-> [i \in 1..Len(exps) |-> i - 1],
     coherence_scores |-> [i \in 1..Len(exps) |-> exps[i].coherence_score.v],
     entropies |-> [i \in 1..Len(exps) |-> exps[i].shannon_entropy.v]]

compare_experiments ==
    /\ call' = [op |-> "compare_experiments"]
    /\ UNCHANGED <<experiments, current_experiment, exp_listbox, progress,
                   data_text, results_tree, status_var, fig>>
    /\ IF Len(experiments) < MinCompare
       THEN /\ dialog' = showwarning(
                   "Please load at least 2 experiments for comparison")
            /\ uncaught' = "none"
            /\ UNCHANGED <<comp_fig, tab>>
       ELSE /\ dialog' = NoDialog
            /\ uncaught' = CompareException(experiments)
            /\ IF CompareException(experiments) # "none"
               THEN /\ comp_fig' = BlankAxes
                    /\ UNCHANGED tab
               ELSE /\ comp_fig' = comparison_figure(experiments)
                    /\ tab' = 3

plot_timeline ==
    /\ call' = [op |-> "plot_timeline"]
    /\ UNCHANGED <<experiments, current_experiment, exp_listbox, progress,
                   data_text, results_tree, status_var, fig>>
    /\ uncaught' = "none"
    /\ IF Len(experiments) < MinCompare
       THEN /\ dialog' = showwarning(
                   "Please load at least 2 experiments for timeline analysis")
            /\ UNCHANGED <<comp_fig, tab>>
       ELSE /\ dialog' = NoDialog
            /\ comp_fig' = timeline_figure(experiments)
            /\ tab' = 3

-----------------------------------------------------------------------------
(* the application: any handler, at any time *)

Init ==
    /\ InitGui
    /\ arg = None
    /\ ret = None

Next ==
    \/ load_experiment_cancel /\ UNCHANGED untouched
    \/ \E file_path \in Paths : load_experiment(file_path) /\ UNCHANGED untouched
    \/ \E file_paths \in BatchSelections :
          load_multiple_experiments(file_paths) /\ UNCHANGED untouched
    \/ \E idx \in 0..Len(exp_listbox) :
          on_experiment_select(idx) /\ UNCHANGED untouched
    \/ refresh_display /\ UNCHANGED untouched
    \/ qhrf_assessment /\ UNCHANGED untouched
    \/ compare_experiments /\ UNCHANGED untouched
    \/ plot_timeline /\ UNCHANGED untouched
    \/ clear_all /\ UNCHANGED untouched

Spec == Init /\ [][Next]_vars

-----------------------------------------------------------------------------
(* plot_state_distribution, plot_qhrf_signature, plot_performance_metrics, *)
(* and generate_dashboard: what each computes before it draws              *)

TopStates == 8

\* a probability is count / total, kept as the exact fraction <<count, total>>
\* with total # 0; p >= q for two of them
ProbGeq(p, q) == (p[1] * q[2] - q[1] * p[2]) * (p[2] * q[2]) >= 0

\* the sort with equal probabilities in reverse document order: an item goes
\* before every item already placed whose probability is no greater
InsertBeforeTies(sorted, item) ==
    LET k == Cardinality({i \in 1..Len(sorted) :
                             ~ProbGeq(item[2], sorted[i][2])})
    IN SubSeq(sorted, 1, k) \o <<item>> \o SubSeq(sorted, k + 1, Len(sorted))

\* sorted(zip(states, probabilities), key=lambda x: x[1], reverse=True): as
\* stable as the sort of the overview, on the quotient instead of the count
InsertByProb(sorted, item) ==
    LET k == Cardinality({i \in 1..Len(sorted) : ProbGeq(sorted[i][2], item[2])})
    IN SubSeq(sorted, 1, k) \o <<item>> \o SubSeq(sorted, k + 1, Len(sorted))

RECURSIVE SortByProb(_)
SortByProb(items) ==
    IF Len(items) = 0 THEN <<>>
    ELSE InsertByProb(SortByProb(SubSeq(items, 1, Len(items) - 1)),
                      items[Len(items)])

\* zip(states, [c/total for c in counts])
probabilities(raw_counts) ==
    LET total == SumCounts(raw_counts.v)
    IN [i \in 1..Len(raw_counts.v) |->
          <<raw_counts.v[i][1], <<raw_counts.v[i][2].v, total>> >>]

\* the exception raised while the bars are prepared: .keys() of a value that
\* is no dict, sum() over a count that is no number, c/total with total 0,
\* and the unpacking of zip(*[]) for an empty raw_counts
BarsException(exp) ==
    IF exp = None THEN "AttributeError"
    ELSE IF exp.raw_counts.t # "obj" THEN "AttributeError"
    ELSE IF \E i \in 1..Len(exp.raw_counts.v) : ~IsNumber(exp.raw_counts.v[i][2])
         THEN "TypeError"
    ELSE IF Len(exp.raw_counts.v) > 0 /\ SumCounts(exp.raw_counts.v) = 0
         THEN "ZeroDivisionError"
    ELSE IF Len(exp.raw_counts.v) = 0 THEN "ValueError"
    ELSE "none"

\* the colour of a bar of plot_state_distribution
bar_color(state) ==
    IF state = "0101" THEN "#D32F2F"
    ELSE IF state \in {"0100", "1101"} THEN "#FF6B00"
    ELSE IF state \in {"0000", "1111"} THEN "#1976D2"
    ELSE "#757575"

\* the legend of plot_state_distribution: what each colour stands for
legend_elements ==
    [c \in {"#D32F2F", "#FF6B00", "#1976D2", "#757575"} |->
        CASE c = "#D32F2F" -> "|0101> Primary QHRF"
          [] c = "#FF6B00" -> "QHRF Signature"
          [] c = "#1976D2" -> "Classical States"
          [] c = "#757575" -> "Other States"]

\* the bars of plot_state_distribution, left to right
distribution_bars(exp) ==
    LET sorted_data == SortByProb(probabilities(exp.raw_counts))
    IN [i \in 1..Len(sorted_data) |->
          [state |-> sorted_data[i][1],
           prob |-> sorted_data[i][2],
           color |-> bar_color(sorted_data[i][1])]]

\* the colours with '1101' left out of the signature pair
dashboard_color_without_1101(state) ==
    IF state = "0101" THEN "#D32F2F"
    ELSE IF state \in {"0100"} THEN "#FF6B00"
    ELSE IF state \in {"0000", "1111"} THEN "#1976D2"
    ELSE "#757575"

\* the colour of a bar of the dashboard's top-states chart
dashboard_color(state) ==
    IF state = "0101" THEN "#D32F2F"
    ELSE IF state \in {"0100", "1101"} THEN "#FF6B00"
    ELSE IF state \in {"0000", "1111"} THEN "#1976D2"
    ELSE "#757575"

\* the bars of the dashboard: the first eight of the sorted states
dashboard_bars(exp) ==
    LET sorted_data == Take(SortByProb(probabilities(exp.raw_counts)), TopStates)
    IN [i \in 1..Len(sorted_data) |->
          [state |-> sorted_data[i][1],
           prob |-> sorted_data[i][2],
           color |-> dashboard_color(sorted_data[i][1])]]

\* a quotient count / total below 0, given total # 0
Negative(count, total) == count * total < 0

\* the probability of the three signature states, or of all the others, is
\* below 0: ax.pie refuses a negative wedge
NegativeWedge(raw_counts) ==
    LET total == SumCounts(raw_counts.v)
        qhrf == [i \in 1..3 |->
                    Get(raw_counts.v, <<"0101", "0100", "1101">>[i], Num(0)).v]
    IN \/ \E i \in 1..3 : Negative(qhrf[i], total)
       \/ Negative(total - (qhrf[1] + qhrf[2] + qhrf[3]), total)

\* the exception plot_qhrf_signature raises after it has cleared the figure
\* and added its four axes
SignatureException(exp) ==
    IF exp.raw_counts.t # "obj" THEN "AttributeError"
    ELSE IF \E i \in 1..Len(exp.raw_counts.v) : ~IsNumber(exp.raw_counts.v[i][2])
         THEN "TypeError"
    ELSE IF SumCounts(exp.raw_counts.v) = 0 THEN "ZeroDivisionError"
    ELSE IF NegativeWedge(exp.raw_counts) THEN "ValueError"
    ELSE IF \E f \in {"shannon_entropy", "coherence_score",
                      "qhrf_signature_strength", "classical_suppression"} :
               ~IsNumber(exp[f])
         THEN "TypeError"
    ELSE IF Len(exp.dominant_state.v) < 2 THEN "IndexError"
    ELSE IF ~IsNumber(exp.dominant_state.v[2]) THEN "ValueError"
    ELSE "none"

\* the exception plot_performance_metrics raises after it has cleared the
\* figure and added its axes
PerformanceException(exp) ==
    IF Len(exp.dominant_state.v) < 2 THEN "IndexError"
    ELSE IF \/ \E f \in {"shannon_entropy", "coherence_score",
                         "qhrf_signature_strength", "classical_suppression"} :
                  ~IsNumber(exp[f])
            \/ ~IsNumber(exp.dominant_state.v[2])
         THEN "TypeError"
    ELSE "none"

\* the exception generate_dashboard catches: exp is what it read from
\* self.current_experiment, None after a clear_all
DashboardException(exp) ==
    IF BarsException(exp) # "none" THEN BarsException(exp)
    ELSE IF \E f \in {"shannon_entropy", "coherence_score",
                      "qhrf_signature_strength", "shots"} : ~IsNumber(exp[f])
         THEN "ValueError"
    ELSE IF Len(exp.dominant_state.v) < 2 THEN "IndexError"
    ELSE IF ~IsNumber(exp.dominant_state.v[2]) THEN "ValueError"
    ELSE IF NegativeWedge(exp.raw_counts) THEN "ValueError"
    ELSE IF ~IsNumber(exp.classical_suppression) THEN "TypeError"
    ELSE "none"

\* the exception a plot function raises with exp current
PlotException(plot_name, exp) ==
    CASE plot_name = "state_distribution" -> BarsException(exp)
      [] plot_name = "qhrf_signature" -> SignatureException(exp)
      [] plot_name = "performance_metrics" -> PerformanceException(exp)
      [] plot_name = "dashboard" -> DashboardException(exp)

\* what a plot function adds to the figure: its axes for the experiment it
\* read, complete only when nothing was raised on the way
Layer(plot_name, exp) ==
    [plot |-> plot_name,
     name |-> IF exp = None THEN None ELSE exp.name,
     complete |-> PlotException(plot_name, exp) = "none"]

\* the figure with the axes of one more plot: fig.add_subplot adds to what
\* the figure holds since its last fig.clear()
Draw(figure, layer) ==
    [kind |-> "drawn",
     layers |-> (IF figure.kind = "drawn" THEN figure.layers ELSE <<>>)
                \o <<layer>>]

-----------------------------------------------------------------------------
(* the handlers of the visualization figure, their worker threads and the  *)
(* callbacks the threads post                                              *)

MaxWorkers == 1

\* the paths savefig cannot write
Unwritable == {"/readonly/plot.png"}

\* the threads running and the callbacks posted are fewer than MaxWorkers
CanStart == Len(threads) + Len(after_queue) < MaxWorkers

showinfo(message) == [kind |-> "info", title |-> "Success", message |-> message]

Remove(s, i) == SubSeq(s, 1, i - 1) \o SubSeq(s, i + 1, Len(s))

plots_to_generate ==
    <<"state_distribution", "qhrf_signature", "performance_metrics",
      "dashboard">>

\* plot_state_distribution, plot_qhrf_signature, plot_performance_metrics:
\* the same frame around three computations
plot_current(plot_name) ==
    /\ call' = [op |-> "plot_" \o plot_name]
    /\ UNCHANGED <<experiments, current_experiment, exp_listbox, status_var,
                   progress, data_text, results_tree, comp_fig, threads,
                   after_queue, exported>>
    /\ IF current_experiment = None
       THEN /\ dialog' = showwarning("Please load an experiment first")
            /\ uncaught' = "none"
            /\ UNCHANGED <<fig, tab>>
       ELSE /\ dialog' = NoDialog
            /\ fig' = Draw(EmptyFigure, Layer(plot_name, current_experiment))
            /\ uncaught' = PlotException(plot_name, current_experiment)
            /\ tab' = IF PlotException(plot_name, current_experiment) = "none"
                      THEN 1 ELSE tab

plot_state_distribution == plot_current("state_distribution")

plot_qhrf_signature == plot_current("qhrf_signature")

plot_performance_metrics == plot_current("performance_metrics")

\* a thread running generate_dashboard: exp is its local variable, unset until
\* the thread reads self.current_experiment; requested records what
\* current_experiment was when plot_dashboard started the thread (the closure
\* itself keeps no such reference)
DashboardThread(requested) ==
    [kind |-> "dashboard", pc |-> "start", exp |-> None,
     requested |-> requested]

\* plot_dashboard: the status, the progress bar and the start of the thread
plot_dashboard ==
    /\ call' = [op |-> "plot_dashboard"]
    /\ uncaught' = "none"
    /\ UNCHANGED <<experiments, current_experiment, exp_listbox, data_text,
                   results_tree, comp_fig, fig, tab, after_queue, exported>>
    /\ IF current_experiment = None
       THEN /\ dialog' = showwarning("Please load an experiment first")
            /\ UNCHANGED <<status_var, progress, threads>>
       ELSE /\ CanStart
            /\ dialog' = NoDialog
            /\ status_var' = "Generating comprehensive dashboard..."
            /\ progress' = "running"
            /\ threads' = Append(threads, DashboardThread(current_experiment))

\* generate_dashboard, first step: self.fig.clear() and the read of
\* self.current_experiment, in the worker thread
generate_dashboard_clear(i) ==
    /\ threads[i].kind = "dashboard"
    /\ threads[i].pc = "start"
    /\ call' = [op |-> "generate_dashboard", step |-> "clear"]
    /\ fig' = EmptyFigure
    /\ threads' = [threads EXCEPT ![i].pc = "drawing",
                                  ![i].exp = current_experiment]
    /\ UNCHANGED <<experiments, current_experiment, exp_listbox, status_var,
                   progress, dialog, data_text, results_tree, comp_fig, tab,
                   uncaught, after_queue, exported>>

\* the callback generate_dashboard posts at its end
dashboard_callback(exc) ==
    IF exc = "none" THEN <<[fn |-> "dashboard_done", exc |-> exc]>>
    ELSE <<[fn |-> "dashboard_failed", exc |-> exc]>>

\* generate_dashboard, the rest: the axes drawn into self.fig as it is now,
\* and the callback posted for the UI thread; the thread ends
generate_dashboard_draw(i) ==
    /\ threads[i].kind = "dashboard"
    /\ threads[i].pc = "drawing"
    /\ call' = [op |-> "generate_dashboard", step |-> "draw"]
    /\ fig' = Draw(fig, Layer("dashboard", threads[i].exp))
    /\ after_queue' =
          after_queue \o dashboard_callback(DashboardException(threads[i].exp))
    /\ threads' = Remove(threads, i)
    /\ UNCHANGED <<experiments, current_experiment, exp_listbox, status_var,
                   progress, dialog, data_text, results_tree, comp_fig, tab,
                   uncaught, exported>>

\* generate_dashboard from its first line to its last, when no other flow
\* runs in between
generate_dashboard(i) ==
    /\ threads[i].kind = "dashboard"
    /\ threads[i].pc = "start"
    /\ call' = [op |-> "generate_dashboard", step |-> "draw"]
    /\ fig' = Draw(EmptyFigure, Layer("dashboard", current_experiment))
    /\ after_queue' =
          after_queue \o dashboard_callback(DashboardException(current_experiment))
    /\ threads' = Remove(threads, i)
    /\ UNCHANGED <<experiments, current_experiment, exp_listbox, status_var,
                   progress, dialog, data_text, results_tree, comp_fig, tab,
                   uncaught, exported>>

\* export_all_plots: output_dir is what askdirectory returned, "" when the
\* dialog was cancelled
export_all_plots(output_dir) ==
    /\ call' = [op |-> "export_all_plots", output_dir |-> output_dir]
    /\ uncaught' = "none"
    /\ UNCHANGED <<experiments, current_experiment, exp_listbox, data_text,
                   results_tree, comp_fig, fig, tab, after_queue, exported>>
    /\ IF current_experiment = None
       THEN /\ dialog' = showwarning("Please load an experiment first")
            /\ UNCHANGED <<status_var, progress, threads>>
       ELSE IF output_dir = ""
       THEN /\ dialog' = NoDialog
            /\ UNCHANGED <<status_var, progress, threads>>
       ELSE /\ CanStart
            /\ dialog' = NoDialog
            /\ status_var' = "Generating and exporting all plots..."
            /\ progress' = "running"
            /\ threads' = Append(threads,
                                 [kind |-> "export", pc |-> 0,
                                  output_dir |-> output_dir,
                                  exp_name |-> None, saved_files |-> 0])

\* export_all, first step: exp_name = self.current_experiment.name, which
\* raises when a clear_all came first
export_all_begin(i) ==
    /\ threads[i].kind = "export"
    /\ threads[i].pc = 0
    /\ call' = [op |-> "export_all", step |-> "begin"]
    /\ IF current_experiment = None
       THEN /\ after_queue' = Append(after_queue,
                                     [fn |-> "export_failed",
                                      exc |-> "AttributeError"])
            /\ threads' = Remove(threads, i)
            /\ UNCHANGED exported
       ELSE /\ threads' = [threads EXCEPT ![i].pc = 1,
                                          ![i].exp_name = current_experiment.name]
            /\ exported' = <<>>
            /\ UNCHANGED after_queue
    /\ UNCHANGED <<experiments, current_experiment, exp_listbox, status_var,
                   progress, dialog, data_text, results_tree, comp_fig, fig,
                   tab, uncaught>>

\* export_all, one turn of its loop for one of the first three plots: the
\* plot function run in the worker thread, then savefig when the
\* visualization tab is the selected one, then saved_files.append
export_all_plot(i) ==
    /\ threads[i].kind = "export"
    /\ threads[i].pc \in 1..3
    /\ LET plot_name == plots_to_generate[threads[i].pc]
           exc == IF current_experiment = None THEN "none"
                  ELSE PlotException(plot_name, current_experiment)
       IN /\ call' = [op |-> "export_all", step |-> plot_name]
          /\ IF current_experiment = None
             THEN /\ dialog' = showwarning("Please load an experiment first")
                  /\ UNCHANGED <<fig, tab>>
             ELSE /\ fig' = Draw(EmptyFigure, Layer(plot_name, current_experiment))
                  /\ tab' = IF exc = "none" THEN 1 ELSE tab
                  /\ UNCHANGED dialog
          /\ IF exc = "none"
             THEN /\ exported' =
                        IF tab' = 1
                        THEN Append(exported, [plot |-> plot_name, figure |-> fig'])
                        ELSE exported
                  /\ threads' = [threads EXCEPT
                                    ![i].pc = @ + 1,
                                    ![i].saved_files = @ + 1]
             ELSE /\ threads' = [threads EXCEPT ![i].pc = @ + 1]
                  /\ UNCHANGED exported
    /\ UNCHANGED <<experiments, current_experiment, exp_listbox, status_var,
                   progress, data_text, results_tree, comp_fig, uncaught,
                   after_queue>>

\* export_all, the fourth turn up to the return of plot_dashboard, which
\* has only started its own thread (the exporting thread is not counted
\* among the MaxWorkers)
export_all_dashboard(i) ==
    /\ threads[i].kind = "export"
    /\ threads[i].pc = 4
    /\ call' = [op |-> "export_all", step |-> "dashboard"]
    /\ IF current_experiment = None
       THEN /\ dialog' = showwarning("Please load an experiment first")
            /\ threads' = [threads EXCEPT ![i].pc = 5]
            /\ UNCHANGED <<status_var, progress>>
       ELSE /\ Len(threads) - 1 + Len(after_queue) < MaxWorkers
            /\ status_var' = "Generating comprehensive dashboard..."
            /\ progress' = "running"
            /\ threads' = Append([threads EXCEPT ![i].pc = 5],
                                  DashboardThread(current_experiment))
            /\ UNCHANGED dialog
    /\ UNCHANGED <<experiments, current_experiment, exp_listbox, data_text,
                   results_tree, comp_fig, fig, tab, uncaught, after_queue,
                   exported>>

\* export_all, the end of the fourth turn and of the thread: savefig of the
\* figure as it is now, saved_files.append, and the callback
export_all_save(i) ==
    /\ threads[i].kind = "export"
    /\ threads[i].pc = 5
    /\ call' = [op |-> "export_all", step |-> "save"]
    /\ exported' = IF tab = 1
                   THEN Append(exported, [plot |-> "dashboard", figure |-> fig])
                   ELSE exported
    /\ after_queue' = Append(after_queue,
                             [fn |-> "export_done",
                              saved_files |-> threads[i].saved_files + 1,
                              output_dir |-> threads[i].output_dir])
    /\ threads' = Remove(threads, i)
    /\ UNCHANGED <<experiments, current_experiment, exp_listbox, status_var,
                   progress, dialog, data_text, results_tree, comp_fig, fig,
                   tab, uncaught>>

\* export_all from its first line to its last, when no other flow runs in
\* between: the three plots drawn and saved, plot_dashboard called (its
\* thread started), the figure saved once more and the callback posted
export_all(i) ==
    /\ threads[i].kind = "export"
    /\ threads[i].pc = 0
    /\ call' = [op |-> "export_all", step |-> "save"]
    /\ IF current_experiment = None
       THEN /\ after_queue' = Append(after_queue,
                                     [fn |-> "export_failed",
                                      exc |-> "AttributeError"])
            /\ threads' = Remove(threads, i)
            /\ UNCHANGED <<exported, fig, tab, status_var, progress>>
       ELSE LET exp == current_experiment
                drawn == {k \in 1..3 :
                             PlotException(plots_to_generate[k], exp) = "none"}
                tab_after == [k \in 1..3 |->
                                 IF \E j \in drawn : j <= k THEN 1 ELSE tab]
                figure == [k \in 1..3 |->
                              Draw(EmptyFigure, Layer(plots_to_generate[k], exp))]
                saved == [k \in 1..3 |->
                             IF k \in drawn /\ tab_after[k] = 1
                             THEN <<[plot |-> plots_to_generate[k],
                                     figure |-> figure[k]]>>
                             ELSE <<>>]
            IN /\ fig' = figure[3]
               /\ tab' = tab_after[3]
               /\ exported' =
                     saved[1] \o saved[2] \o saved[3]
                     \o (IF tab_after[3] = 1
                         THEN <<[plot |-> "dashboard", figure |-> figure[3]]>>
                         ELSE <<>>)
               /\ status_var' = "Generating comprehensive dashboard..."
               /\ progress' = "running"
               /\ threads' = Append(Remove(threads, i), DashboardThread(exp))
               /\ after_queue' =
                     Append(after_queue,
                            [fn |-> "export_done",
                             saved_files |-> Cardinality(drawn) + 1,
                             output_dir |-> threads[i].output_dir])
    /\ UNCHANGED <<experiments, current_experiment, exp_listbox, dialog,
                   data_text, results_tree, comp_fig, uncaught>>

\* export_current_plot: file_path is what asksaveasfilename returned, "" when
\* the dialog was cancelled; savefig raises for a path it cannot write
export_current_plot(file_path) ==
    /\ call' = [op |-> "export_current_plot"]
    /\ uncaught' = "none"
    /\ UNCHANGED <<experiments, current_experiment, exp_listbox, progress,
                   data_text, results_tree, comp_fig, fig, tab, threads,
                   after_queue, exported>>
    /\ IF tab \notin {1, 3}
       THEN /\ dialog' = showwarning("Please switch to Visualizations or "
                                     \o "Comparison tab to export plots")
            /\ UNCHANGED status_var
       ELSE IF file_path = ""
       THEN /\ dialog' = NoDialog
            /\ UNCHANGED status_var
       ELSE IF file_path \in Unwritable
       THEN /\ dialog' = showerror(IF tab = 1 THEN "Failed to save plot: OSError"
                                   ELSE "Failed to save comparison plot: OSError")
            /\ UNCHANGED status_var
       ELSE /\ dialog' = showinfo(IF tab = 1 THEN "Plot saved successfully to: "
                                                  \o file_path
                                  ELSE "Comparison plot saved successfully to: "
                                       \o file_path)
            /\ status_var' = IF tab = 1 THEN "Plot saved: " \o file_path
                             ELSE "Comparison plot saved: " \o file_path

\* the Tk main loop runs the callback posted first. The callbacks of the
\* `except Exception as e` clauses read e when they run, and e is unbound
\* once the thread has left the clause: e_bound is which of the two came
\* first, and str(e) raises NameError when it is FALSE, ending the callback
\* at that element of its list
\* the plot functions generate_all_plots schedules with root.after(1000 ...),
\* (2000 ...) and (3000 ...), in the order they come due
scheduled_plots ==
    <<[fn |-> "plot_qhrf_signature"], [fn |-> "plot_performance_metrics"],
      [fn |-> "plot_dashboard"]>>

\* an entry of after_queue that is a timer of generate_all_plots; the others
\* are the after(0, ...) callbacks of the threads
IsTimer(entry) == entry.fn \in {scheduled_plots[k].fn : k \in 1..3}

\* the place in after_queue of the callback the main loop runs next: the
\* oldest of the after(0, ...) callbacks
NextCallback ==
    CHOOSE k \in 1..Len(after_queue) :
        /\ ~IsTimer(after_queue[k])
        /\ \A j \in 1..(k - 1) : IsTimer(after_queue[j])

\* the place in after_queue of the timer that comes due next
NextTimer ==
    CHOOSE k \in 1..Len(after_queue) :
        /\ IsTimer(after_queue[k])
        /\ \A j \in 1..(k - 1) : ~IsTimer(after_queue[j])

run_callback ==
    /\ \E k \in 1..Len(after_queue) : ~IsTimer(after_queue[k])
    /\ LET callback == after_queue[NextCallback] IN
       /\ call' = [op |-> "after", fn |-> callback.fn]
       /\ after_queue' = Remove(after_queue, NextCallback)
       /\ CASE callback.fn = "dashboard_done" ->
                 /\ tab' = 1
                 /\ progress' = "stopped"
                 /\ status_var' = "Dashboard generated successfully"
                 /\ dialog' = NoDialog
                 /\ uncaught' = "none"
            [] callback.fn = "dashboard_failed" ->
                 \E e_bound \in BOOLEAN :
                    IF e_bound
                    THEN /\ dialog' = showerror("Failed to generate dashboard: "
                                                \o callback.exc)
                         /\ progress' = "stopped"
                         /\ status_var' = "Error generating dashboard"
                         /\ uncaught' = "none"
                         /\ UNCHANGED tab
                    ELSE /\ uncaught' = "NameError"
                         /\ UNCHANGED <<dialog, progress, status_var, tab>>
            [] callback.fn = "export_done" ->
                 /\ progress' = "stopped"
                 /\ status_var' = "Exported " \o ToString(callback.saved_files)
                                     \o " plots to " \o callback.output_dir
                 /\ dialog' = showinfo("Successfully exported "
                                       \o ToString(callback.saved_files)
                                       \o " plots to: " \o callback.output_dir)
                 /\ uncaught' = "none"
                 /\ UNCHANGED tab
            [] callback.fn = "export_failed" ->
                 /\ progress' = "stopped"
                 /\ status_var' = "Error exporting plots"
                 /\ UNCHANGED tab
                 /\ \E e_bound \in BOOLEAN :
                       IF e_bound
                       THEN /\ dialog' = showerror("Failed to export plots: "
                                                   \o callback.exc)
                            /\ uncaught' = "none"
                       ELSE /\ uncaught' = "NameError"
                            /\ UNCHANGED dialog
    /\ UNCHANGED <<experiments, current_experiment, exp_listbox, data_text,
                   results_tree, comp_fig, fig, threads, exported>>

\* generate_all_plots scheduling its three timers whatever is current, and
\* plotting nothing itself
generate_all_plots_scheduling ==
    /\ call' = [op |-> "generate_all_plots"]
    /\ dialog' = showwarning("Please load an experiment first")
    /\ uncaught' = "none"
    /\ after_queue' = after_queue \o scheduled_plots
    /\ UNCHANGED <<experiments, current_experiment, exp_listbox, status_var,
                   progress, data_text, results_tree, comp_fig, fig, tab,
                   threads, exported>>

\* generate_all_plots: plot_state_distribution at once, the three other plot
\* functions scheduled; an exception of the first plot leaves the handler
\* before anything is scheduled
generate_all_plots ==
    /\ call' = [op |-> "generate_all_plots"]
    /\ UNCHANGED <<experiments, current_experiment, exp_listbox, status_var,
                   progress, data_text, results_tree, comp_fig, threads,
                   exported>>
    /\ IF current_experiment = None
       THEN /\ dialog' = showwarning("Please load an experiment first")
            /\ uncaught' = "none"
            /\ UNCHANGED <<fig, tab, after_queue>>
       ELSE LET exc == PlotException("state_distribution", current_experiment)
            IN /\ CanStart
               /\ dialog' = NoDialog
               /\ fig' = Draw(EmptyFigure,
                              Layer("state_distribution", current_experiment))
               /\ uncaught' = exc
               /\ tab' = IF exc = "none" THEN 1 ELSE tab
               /\ after_queue' = IF exc = "none"
                                 THEN after_queue \o scheduled_plots
                                 ELSE after_queue

\* the main loop running the timer of generate_all_plots that is due: the
\* plot function called with whatever is current by then
run_timer ==
    /\ \E k \in 1..Len(after_queue) : IsTimer(after_queue[k])
    /\ LET timer == after_queue[NextTimer]
           plot_name == SubSeq(timer.fn, 6, Len(timer.fn))
       IN /\ call' = [op |-> "after", fn |-> timer.fn]
          /\ after_queue' = Remove(after_queue, NextTimer)
          /\ IF current_experiment = None
             THEN /\ dialog' = showwarning("Please load an experiment first")
                  /\ uncaught' = "none"
                  /\ UNCHANGED <<fig, tab, status_var, progress, threads>>
             ELSE IF plot_name = "dashboard"
             THEN /\ dialog' = NoDialog
                  /\ uncaught' = "none"
                  /\ status_var' = "Generating comprehensive dashboard..."
                  /\ progress' = "running"
                  /\ threads' = Append(threads,
                                       DashboardThread(current_experiment))
                  /\ UNCHANGED <<fig, tab>>
             ELSE /\ dialog' = NoDialog
                  /\ fig' = Draw(EmptyFigure, Layer(plot_name, current_experiment))
                  /\ uncaught' = PlotException(plot_name, current_experiment)
                  /\ tab' = IF PlotException(plot_name, current_experiment) = "none"
                            THEN 1 ELSE tab
                  /\ UNCHANGED <<status_var, progress, threads>>
    /\ UNCHANGED <<experiments, current_experiment, exp_listbox, data_text,
                   results_tree, comp_fig, exported>>

\* the figure is explored with up to MaxPlotted experiments loaded
MaxPlotted == 1

\* the files loaded for it: a complete record and one whose counts add to 0
PlottedPaths == {FileGood.path, FileZero.path}

\* the function arguments and results the handlers never see
harness == <<arg, ret>>

DashboardStep ==
    /\ \E i \in 1..Len(threads) :
          generate_dashboard_clear(i) \/ generate_dashboard_draw(i)
    /\ UNCHANGED harness

CallbackStep == run_callback /\ UNCHANGED harness

\* display and the plots of one experiment, with the dashboard in its thread
NextViz ==
    \/ \E file_path \in PlottedPaths :
          /\ Len(experiments) < MaxPlotted
          /\ load_experiment(file_path)
          /\ UNCHANGED untouched
    \/ \E idx \in 0..Len(exp_listbox) :
          on_experiment_select(idx) /\ UNCHANGED untouched
    \/ clear_all /\ UNCHANGED untouched
    \/ plot_state_distribution /\ UNCHANGED harness
    \/ plot_qhrf_signature /\ UNCHANGED harness
    \/ plot_performance_metrics /\ UNCHANGED harness
    \/ plot_dashboard /\ UNCHANGED harness
    \/ \E i \in 1..Len(threads) :
          generate_dashboard_clear(i) /\ UNCHANGED harness
    \/ \E i \in 1..Len(threads) :
          generate_dashboard_draw(i) /\ UNCHANGED harness
    \/ CallbackStep

\* the threads are scheduled and the main loop runs the posted callbacks
Fairness ==
    /\ WF_vars(DashboardStep)
    /\ WF_vars(CallbackStep)

SpecViz == Init /\ [][NextViz]_vars /\ Fairness

\* every handler of the window at once, on the complete record, with the
\* dashboard thread running from its first line to its last in one step
\* (NextViz has the interleavings of the thread with the handlers)
HealthyPaths == {FileGood.path}

\* what asksaveasfilename can return
SavePaths == {"", "/out/plot.png", "/readonly/plot.png"}

\* the multi-file selections that keep the list within MaxPlotted
PlottedSelections ==
    {s \in Selections(MaxPlotted) :
        /\ \A i \in 1..Len(s) : s[i] \in HealthyPaths
        /\ Len(experiments) + Len(s) <= MaxPlotted}

NextGui ==
    \/ load_experiment_cancel /\ UNCHANGED untouched
    \/ \E file_path \in HealthyPaths :
          /\ Len(experiments) < MaxPlotted
          /\ load_experiment(file_path)
          /\ UNCHANGED untouched
    \/ \E file_paths \in PlottedSelections :
          load_multiple_experiments(file_paths) /\ UNCHANGED untouched
    \/ \E idx \in 0..Len(exp_listbox) :
          on_experiment_select(idx) /\ UNCHANGED untouched
    \/ refresh_display /\ UNCHANGED untouched
    \/ qhrf_assessment /\ UNCHANGED untouched
    \/ compare_experiments /\ UNCHANGED untouched
    \/ plot_timeline /\ UNCHANGED untouched
    \/ clear_all /\ UNCHANGED untouched
    \/ plot_state_distribution /\ UNCHANGED harness
    \/ plot_qhrf_signature /\ UNCHANGED harness
    \/ plot_performance_metrics /\ UNCHANGED harness
    \/ plot_dashboard /\ UNCHANGED harness
    \/ \E file_path \in SavePaths :
          export_current_plot(file_path) /\ UNCHANGED harness
    \/ \E i \in 1..Len(threads) :
          generate_dashboard(i) /\ UNCHANGED harness
    \/ CallbackStep

SpecGui == Init /\ [][NextGui]_vars

\* export_all_plots with its thread, the dashboard thread it starts and the
\* handlers that change what the threads read
OutputDirs == {"", "/out"}

ExportStep ==
    /\ \E i \in 1..Len(threads) :
          \/ export_all_begin(i)
          \/ export_all_plot(i)
          \/ export_all_dashboard(i)
          \/ export_all_save(i)
    /\ UNCHANGED harness

NextExport ==
    \/ \E file_path \in HealthyPaths :
          /\ Len(experiments) < MaxPlotted
          /\ load_experiment(file_path)
          /\ UNCHANGED untouched
    \/ clear_all /\ UNCHANGED untouched
    \/ \E output_dir \in OutputDirs :
          export_all_plots(output_dir) /\ UNCHANGED harness
    \/ \E i \in 1..Len(threads) : export_all_begin(i) /\ UNCHANGED harness
    \/ \E i \in 1..Len(threads) : export_all_plot(i) /\ UNCHANGED harness
    \/ \E i \in 1..Len(threads) : export_all_dashboard(i) /\ UNCHANGED harness
    \/ \E i \in 1..Len(threads) : export_all_save(i) /\ UNCHANGED harness
    \/ \E i \in 1..Len(threads) :
          generate_dashboard_clear(i) /\ UNCHANGED harness
    \/ \E i \in 1..Len(threads) :
          generate_dashboard_draw(i) /\ UNCHANGED harness
    \/ CallbackStep

SpecExport ==
    /\ Init
    /\ [][NextExport]_vars
    /\ Fairness
    /\ WF_vars(ExportStep)

TimerStep == run_timer /\ UNCHANGED harness

\* every handler that asks for a current experiment before it plots, exports
\* or assesses, with the timers those handlers start and with each thread
\* running from its first line to its last in one step (NextViz and
\* NextExport have the interleavings)
NextPlots ==
    \/ \E file_path \in HealthyPaths :
          /\ Len(experiments) < MaxPlotted
          /\ load_experiment(file_path)
          /\ UNCHANGED untouched
    \/ clear_all /\ UNCHANGED untouched
    \/ qhrf_assessment /\ UNCHANGED untouched
    \/ plot_state_distribution /\ UNCHANGED harness
    \/ plot_qhrf_signature /\ UNCHANGED harness
    \/ plot_performance_metrics /\ UNCHANGED harness
    \/ plot_dashboard /\ UNCHANGED harness
    \/ generate_all_plots /\ UNCHANGED harness
    \/ \E output_dir \in OutputDirs :
          export_all_plots(output_dir) /\ UNCHANGED harness
    \/ \E i \in 1..Len(threads) : export_all(i) /\ UNCHANGED harness
    \/ \E i \in 1..Len(threads) :
          generate_dashboard(i) /\ UNCHANGED harness
    \/ CallbackStep
    \/ TimerStep

SpecPlots == Init /\ [][NextPlots]_vars

-----------------------------------------------------------------------------
(* parse_experiment_data applied to one document *)

MaxIdLen == 16

MaxBaseLen == 16

LongId == "JOB1234567890XYZABCDEFGH"

LongBase == "experiment_0001_results.json"

Dirs == {"", "/", "/data/", "/data/qhrf.d/"}

FieldKeySet == {FieldKeys[i] : i \in 1..Len(FieldKeys)}

Pending == [t |-> "pending"]

\* a document of the two keys the name and the comparison read; n < 0
\* leaves job_id out
ShortPairs(n) ==
    (IF n < 0 THEN <<>> ELSE << <<"job_id", Str(Take(LongId, n))>> >>)
    \o << <<"coherence_score", Num(35)>> >>

\* the document under the wrapper key, alone or beside top-level siblings
Wrapped(pairs) == Obj(<< <<"experiment_result", Obj(pairs)>> >>)

WrappedWithSiblings(pairs) ==
    Obj(<< <<"job_id", Str("SIBLING-JOB-ID-0001")>>,
           <<"experiment_result", Obj(pairs)>>,
           <<"coherence_score", Num(99)>>,
           <<"shots", Num(7)>> >>)

\* values that are no object, wrappers around them, and documents with a
\* value of another type than section 6 of the format gives the key
OtherDocuments ==
    << Arr(<<>>),
       Arr(<<Num(1), Num(2)>>),
       Arr(<<Str("experiment_result")>>),
       Str("hello"),
       Str("an experiment_result string"),
       Num(7),
       Bool(TRUE),
       Null,
       Obj(<< <<"experiment_result", Arr(<<Num(1)>>)>> >>),
       Obj(<< <<"experiment_result", Str("text")>> >>),
       Obj(<< <<"experiment_result", Num(3)>>, <<"job_id", Str("TOP")>> >>),
       Obj(<< <<"experiment_result", Bool(FALSE)>> >>),
       Obj(<< <<"experiment_result", Null>> >>),
       Obj(<< <<"job_id", Num(12345)>> >>),
       Obj(<< <<"job_id", Null>> >>),
       Obj(<< <<"job_id", Arr(<<Num(1), Num(2)>>)>> >>),
       Obj(<< <<"dominant_state", Num(5)>> >>),
       Obj(<< <<"dominant_state", Str("01")>> >>),
       Obj(<< <<"job_id", Str("JOB-WITH-BAD-DOMINANT")>>,
              <<"dominant_state", Null>> >>),
       Obj(<< <<"unknown_key", Num(1)>>, <<"backend_name", Str("ibm_kyiv")>> >>) >>

ParseCall(data, file_path) ==
    [fn |-> "parse_experiment_data", data |-> data, file_path |-> file_path]

InitParse ==
    /\ InitGui
    /\ ret = Pending
    /\ \/ \E P \in SUBSET FieldKeySet :
             arg = ParseCall(Obj(WithKeys(FullPairs(Take(LongId, MaxIdLen)), P)),
                             "/data/" \o LongBase)
       \/ \E n \in -1..MaxIdLen, m \in 1..MaxBaseLen, dir \in Dirs :
             \/ arg = ParseCall(Obj(ShortPairs(n)), dir \o Take(LongBase, m))
             \/ arg = ParseCall(Wrapped(ShortPairs(n)), dir \o Take(LongBase, m))
             \/ arg = ParseCall(WrappedWithSiblings(ShortPairs(n)),
                                dir \o Take(LongBase, m))
       \/ \E i \in 1..Len(OtherDocuments), dir \in Dirs :
             arg = ParseCall(OtherDocuments[i], dir \o "result.json")

ApplyParse ==
    /\ arg.fn = "parse_experiment_data"
    /\ ret = Pending
    /\ ret' = parse_experiment_data(arg.data, arg.file_path)
    /\ UNCHANGED <<arg, gui>>

SpecParse == InitParse /\ [][ApplyParse]_vars

-----------------------------------------------------------------------------
(* claims about parse_experiment_data, checked under SpecParse *)

Parsed == arg.fn = "parse_experiment_data" /\ ret # Pending

\* the type section 6 of the format gives each recognized key
WellTyped(key, value) ==
    CASE key \in {"job_id", "backend_name"} -> value.t = "str"
      [] key = "raw_counts" -> value.t = "obj"
      [] key = "dominant_state" -> value.t = "arr"
      [] OTHER -> value.t = "num"

\* an object of recognized keys only, each of its type
IsFieldObject(data) ==
    /\ data.t = "obj"
    /\ \A i \in 1..Len(data.v) :
          /\ data.v[i][1] \in FieldKeySet
          /\ WellTyped(data.v[i][1], data.v[i][2])

\* the record field a key is stored in
FieldOf(key) == IF key = "backend_name" THEN "backend" ELSE key

DocumentedDefault(key) ==
    CASE key \in {"job_id", "backend_name"} -> Str("Unknown")
      [] key = "raw_counts" -> Obj(<<>>)
      [] key = "dominant_state" -> Tuple(<<Str("0000"), Num(0)>>)
      [] OTHER -> Num(0)

Supplied(data, key) ==
    LET i == CHOOSE j \in 1..Len(data.v) : data.v[j][1] = key
    IN IF key = "dominant_state" THEN Tuple(data.v[i][2].v) ELSE data.v[i][2]

Present(data, key) == \E i \in 1..Len(data.v) : data.v[i][1] = key

\* C1: parsing a top-level object of recognized keys, whichever of them it
\* omits, yields a record in which every absent key has its documented
\* default and every present key the supplied value
C1_AbsentFieldsDefault ==
    (Parsed /\ IsFieldObject(arg.data)) =>
        /\ ret.t = "QHRFExperiment"
        /\ \A key \in FieldKeySet :
              ret[FieldOf(key)] = IF Present(arg.data, key)
                                  THEN Supplied(arg.data, key)
                                  ELSE DocumentedDefault(key)
        /\ ret.file_path = arg.file_path

C1_Witness ==
    /\ Parsed
    /\ IsFieldObject(arg.data)
    /\ Present(arg.data, "shots")
    /\ ~Present(arg.data, "backend_name")
    /\ ~Present(arg.data, "dominant_state")
    /\ ret.t = "QHRFExperiment"
    /\ ret.shots = Num(100)
    /\ ret.backend = Str("Unknown")
    /\ ret.dominant_state = Tuple(<<Str("0000"), Num(0)>>)

RecordFields ==
    {"name", "job_id", "backend", "shots", "execution_time", "circuit_depth",
     "raw_counts", "shannon_entropy", "coherence_score",
     "qhrf_signature_strength", "classical_suppression", "dominant_state",
     "unique_states", "parity_balance", "participation_ratio"}

\* two results of the parser that differ at most in file_path
SameButProvenance(a, b) ==
    IF a.t = "QHRFExperiment" /\ b.t = "QHRFExperiment"
    THEN \A f \in RecordFields : a[f] = b[f]
    ELSE a = b

HasWrapperKey(data) == data.t = "obj" /\ Present(data, "experiment_result")

WrapperValue(data) ==
    data.v[CHOOSE j \in 1..Len(data.v) : data.v[j][1] = "experiment_result"][2]

\* C2: an object d of experiment fields parses to the same record, but for
\* provenance, whether given at top level or under the wrapper key; and when
\* the wrapper key is present the keys beside it are ignored
C2_WrapperEquivalence ==
    /\ (Parsed /\ IsFieldObject(arg.data)) =>
          SameButProvenance(
              parse_experiment_data(
                  Obj(<< <<"experiment_result", arg.data>> >>), arg.file_path),
              ret)
    /\ (Parsed /\ HasWrapperKey(arg.data)
               /\ IsFieldObject(WrapperValue(arg.data))) =>
          SameButProvenance(
              ret, parse_experiment_data(WrapperValue(arg.data), arg.file_path))

C2_Witness ==
    /\ Parsed
    /\ HasWrapperKey(arg.data)
    /\ Present(arg.data, "job_id")
    /\ IsFieldObject(WrapperValue(arg.data))
    /\ Present(WrapperValue(arg.data), "job_id")
    /\ ret.t = "QHRFExperiment"
    /\ ret.job_id = Supplied(WrapperValue(arg.data), "job_id")
    /\ ret.job_id # Supplied(arg.data, "job_id")
    /\ ret.coherence_score = Num(35)

\* the object the fields are read from, as the format describes it
FieldsOf(data) == IF HasWrapperKey(data) THEN WrapperValue(data) ELSE data

HasStringJobId(data) ==
    /\ FieldsOf(data).t = "obj"
    /\ Present(FieldsOf(data), "job_id")
    /\ Supplied(FieldsOf(data), "job_id").t = "str"

First12(str) == SubSeq(str, 1, IF Len(str) < 12 THEN Len(str) ELSE 12)

\* C3: with a string job_id, the record's name is the first 12 characters of
\* the job_id (all of it when shorter) and its job_id field is the whole
\* string
C3_NameFromJobId ==
    (Parsed /\ ret.t = "QHRFExperiment" /\ HasStringJobId(arg.data)) =>
        /\ ret.name = Str(First12(Supplied(FieldsOf(arg.data), "job_id").v))
        /\ ret.job_id = Supplied(FieldsOf(arg.data), "job_id")

C3_Witness ==
    /\ Parsed
    /\ HasStringJobId(arg.data)
    /\ ret.t = "QHRFExperiment"
    /\ ret.job_id = Str("JOB1234567890XYZ")
    /\ ret.name = Str("JOB123456789")

\* the part of a path after its last separator
BaseNameOf(path) ==
    LET seps == {i \in 1..Len(path) : SubSeq(path, i, i) = "/"}
        last == IF seps = {} THEN 0
                ELSE CHOOSE i \in seps : \A j \in seps : j <= i
    IN SubSeq(path, last + 1, Len(path))

NoJobId(data) == FieldsOf(data).t = "obj" /\ ~Present(FieldsOf(data), "job_id")

\* C4 as stated: without a job_id key, the record's name is the base name
\* of the source path, whatever its length
C4_NameIsBaseName ==
    (Parsed /\ ret.t = "QHRFExperiment" /\ NoJobId(arg.data)) =>
        ret.name = Str(BaseNameOf(arg.file_path))

\* C4 as amended: without a job_id key, the record's name is the first 12
\* characters of the base name of the source path (all of it when the base
\* name has at most 12 characters)
C4_NameIsTruncatedBaseName ==
    (Parsed /\ ret.t = "QHRFExperiment" /\ NoJobId(arg.data)) =>
        ret.name = Str(First12(BaseNameOf(arg.file_path)))

C4_Witness ==
    /\ Parsed
    /\ NoJobId(arg.data)
    /\ arg.file_path = "/data/qhrf.d/experiment_0001_"
    /\ ret.t = "QHRFExperiment"
    /\ ret.name = Str("experiment_0")

\* a value that is no object, or an object whose wrapper key holds none
NotAnExperimentObject(data) ==
    \/ data.t # "obj"
    \/ HasWrapperKey(data) /\ WrapperValue(data).t # "obj"

\* C5: given a value that is no object, or an object whose
\* 'experiment_result' is no object, the parser returns None: it neither
\* raises to its caller nor returns a record
C5_NonObjectFails ==
    (Parsed /\ NotAnExperimentObject(arg.data)) => ret = None

C5_Witness ==
    /\ Parsed
    /\ HasWrapperKey(arg.data)
    /\ WrapperValue(arg.data).t = "arr"
    /\ ret = None

-----------------------------------------------------------------------------
(* display_experiment_data and qhrf_assessment applied to one record *)

MetricSpread == 1

Around(threshold) == (threshold - MetricSpread)..(threshold + MetricSpread)

\* a document whose metrics lie at and around the thresholds
MetricPairs(entropy, coherence, signature, dominance, suppression, states, label) ==
    << <<"job_id", Str("METRICS")>>,
       <<"shannon_entropy", Num(entropy)>>,
       <<"coherence_score", Num(coherence)>>,
       <<"qhrf_signature_strength", Num(signature)>>,
       <<"classical_suppression", Num(suppression)>>,
       <<"dominant_state", Arr(<<Str(label), Num(dominance)>>)>>,
       <<"unique_states", Num(states)>> >>

\* documents whose records the overview cannot render, and the empty one
OddDocuments ==
    << Obj(<<>>),
       FileZero.content,
       FileShort.content,
       FileWrapped.content,
       Obj(<< <<"dominant_state", Arr(<<>>)>> >>),
       Obj(<< <<"raw_counts", Obj(<< <<"0101", Num(2)>>, <<"0000", Num(2)>>,
                                     <<"1101", Num(5)>>, <<"0011", Num(2)>> >>)>> >>) >>

AssessCall(data) ==
    [fn |-> "assess",
     experiment |-> parse_experiment_data(data, "/data/metrics.json")]

InitAssess ==
    /\ InitGui
    /\ ret = Pending
    /\ \/ \E entropy \in Around(EntropyThreshold),
             coherence \in Around(CoherenceThreshold),
             signature \in Around(SignatureThreshold),
             dominance \in Around(DominanceThreshold),
             suppression \in Around(SuppressionThreshold),
             states \in Around(AllStates),
             label \in {"0101", "1111"} :
             arg = AssessCall(Obj(MetricPairs(entropy, coherence, signature,
                                              dominance, suppression, states,
                                              label)))
       \/ \E i \in 1..Len(OddDocuments) : arg = AssessCall(OddDocuments[i])

\* display_experiment_data(arg.experiment): what it raised and the data tab
ApplyDisplay ==
    /\ arg.fn = "assess"
    /\ ret = Pending
    /\ ret' = [fn |-> "display_experiment_data",
               raised |-> DisplayException(arg.experiment),
               text |-> data_text_after(arg.experiment)]
    /\ UNCHANGED <<arg, gui>>

\* qhrf_assessment with arg.experiment current: what it raised and the
\* window it opened
ApplyAssessment ==
    /\ arg.fn = "assess"
    /\ ret = Pending
    /\ ret' = [fn |-> "qhrf_assessment",
               raised |-> AssessmentException(arg.experiment),
               text |-> IF AssessmentException(arg.experiment) = "none"
                        THEN assessment_text(arg.experiment)
                        ELSE EmptyText]
    /\ UNCHANGED <<arg, gui>>

NextAssess == ApplyDisplay \/ ApplyAssessment

SpecAssess == InitAssess /\ [][NextAssess]_vars

-----------------------------------------------------------------------------
(* the three assessments of one record: the data overview, the dialog and  *)
(* the panel of the dashboard                                              *)

\* counts for the plots of the dashboard, which raise on an empty raw_counts
PanelCounts ==
    << <<"raw_counts",
         Obj(<< <<"0101", Num(5)>>, <<"0000", Num(2)>>, <<"1101", Num(1)>> >>)>> >>

InitPanels ==
    /\ InitGui
    /\ ret = Pending
    /\ \/ \E entropy \in Around(EntropyThreshold),
             coherence \in Around(CoherenceThreshold),
             signature \in Around(SignatureThreshold),
             dominance \in Around(DominanceThreshold),
             suppression \in Around(SuppressionThreshold),
             states \in Around(AllStates),
             label \in {"0101", "1111"} :
             arg = AssessCall(Obj(MetricPairs(entropy, coherence, signature,
                                              dominance, suppression, states,
                                              label)
                                  \o PanelCounts))
       \/ \E i \in 1..Len(OddDocuments) : arg = AssessCall(OddDocuments[i])

\* generate_dashboard with arg.experiment current: what it raised and the
\* text of its assessment panel
ApplyDashboardPanel ==
    /\ arg.fn = "assess"
    /\ ret = Pending
    /\ ret' = [fn |-> "generate_dashboard",
               raised |-> DashboardException(arg.experiment),
               text |-> IF DashboardException(arg.experiment) = "none"
                        THEN dashboard_assessment_text(arg.experiment)
                        ELSE EmptyText]
    /\ UNCHANGED <<arg, gui>>

NextPanels == ApplyDisplay \/ ApplyAssessment \/ ApplyDashboardPanel

SpecPanels == InitPanels /\ [][NextPanels]_vars

-----------------------------------------------------------------------------
(* claims about the assessment, checked under SpecAssess *)

\* the six scores an evaluation produced, in order
ScoresOf(result) ==
    IF result.fn = "display_experiment_data"
    THEN [i \in 1..Len(result.text.assessments) |->
             result.text.assessments[i][2]]
    ELSE [i \in 1..Len(result.text.criteria) |-> result.text.criteria[i][2]]

Assessed == arg.fn = "assess" /\ ret # Pending /\ ret.raised = "none"

\* C9: every assessment, in the overview and in the dialog, has exactly six
\* criteria, each a strict comparison: entropy > 3.0, coherence > 0.3,
\* signature > 0.4, dominant probability > 0.2 whatever the dominant label,
\* suppression > 0.9, and unique_states == 16; a value equal to its
\* threshold fails
C9_SixStrictCriteria ==
    Assessed =>
        LET e == arg.experiment
            scores == ScoresOf(ret)
        IN /\ Len(scores) = 6
           /\ scores[1] <=> ~(e.shannon_entropy.v <= 300)
           /\ scores[2] <=> ~(e.coherence_score.v <= 30)
           /\ scores[3] <=> ~(e.qhrf_signature_strength.v <= 40)
           /\ scores[4] <=> ~(e.dominant_state.v[2].v <= 20)
           /\ scores[5] <=> ~(e.classical_suppression.v <= 90)
           /\ scores[6] <=> (e.unique_states.v = 16)

C9_Witness ==
    /\ Assessed
    /\ ret.fn = "display_experiment_data"
    /\ arg.experiment.shannon_entropy = Num(300)
    /\ arg.experiment.coherence_score = Num(31)
    /\ arg.experiment.dominant_state = Tuple(<<Str("1111"), Num(21)>>)
    /\ ScoresOf(ret)[1] = FALSE
    /\ ScoresOf(ret)[2] = TRUE
    /\ ScoresOf(ret)[4] = TRUE

TrueCount(scores) == Cardinality({i \in 1..Len(scores) : scores[i]})

\* C10: success_rate is passed / 6 * 100 (here in hundredths of a percent,
\* truncated); the tier is excellent from 90, good from 75, moderate below;
\* so it is excellent exactly when all six criteria pass, good exactly when
\* five pass (83.33%), and moderate for four or fewer
C10_SuccessRateAndTier ==
    Assessed =>
        LET passed == TrueCount(ScoresOf(ret))
            rate == ret.text.success_rate
            tier == ret.text.performance
        IN /\ ret.text.passed = passed
           /\ rate * 6 <= passed * 100 * 100
           /\ passed * 100 * 100 < (rate + 1) * 6
           /\ tier = "EXCELLENT QHRF PERFORMANCE" <=> rate >= 90 * 100
           /\ tier = "GOOD QHRF PERFORMANCE"
                 <=> (rate >= 75 * 100 /\ rate < 90 * 100)
           /\ tier = "MODERATE QHRF PERFORMANCE" <=> rate < 75 * 100
           /\ tier = "EXCELLENT QHRF PERFORMANCE" <=> passed = 6
           /\ tier = "GOOD QHRF PERFORMANCE" <=> passed = 5
           /\ tier = "MODERATE QHRF PERFORMANCE" <=> passed <= 4
           /\ passed = 5 => rate = 8333

C10_Witness ==
    /\ Assessed
    /\ ret.fn = "qhrf_assessment"
    /\ TrueCount(ScoresOf(ret)) = 5
    /\ ret.text.success_rate = 8333
    /\ ret.text.performance = "GOOD QHRF PERFORMANCE"

-----------------------------------------------------------------------------
(* claims about the handlers, checked under Spec *)

\* the step is a load_experiment that ended by reporting a failure
LoadExperimentFailed ==
    /\ call'.op = "load_experiment"
    /\ call'.file_path # ""
    /\ dialog'.kind = "error"
    /\ status_var' = "Error loading file"

\* C6: a load_experiment that ends by reporting a failure (error dialog and
\* status 'Error loading file') leaves the experiments list and
\* current_experiment as they were before the call
C6_FailedLoadChangesNothing ==
    [][LoadExperimentFailed =>
          /\ experiments' = experiments
          /\ current_experiment' = current_experiment]_vars

\* a file of the selection that cannot be read or parsed
FailsToLoad(file_path) ==
    \/ Content[file_path] = Unreadable
    \/ parse_experiment_data(Content[file_path], file_path).t # "QHRFExperiment"

\* the records of the files of a selection that load, in selection order
RecordsOfSelection(file_paths) ==
    LET ok == SelectSeq(file_paths, LAMBDA fp : ~FailsToLoad(fp))
    IN [i \in 1..Len(ok) |-> parse_experiment_data(Content[ok[i]], ok[i])]

\* C7: in load_multiple_experiments a file whose read or parse fails
\* contributes no record and does not end the batch: the records of all the
\* other selected files are appended in selection order, and the count the
\* status reports is the number of records the call appended
C7_BatchSkipsFailures ==
    [][(call'.op = "load_multiple_experiments" /\ Len(call'.file_paths) > 0) =>
          /\ experiments' = experiments \o RecordsOfSelection(call'.file_paths)
          /\ uncaught' = "none" =>
                status_var' = "Loaded "
                    \o ToString(Len(experiments') - Len(experiments))
                    \o " experiments"]_vars

C7_Witness ==
    /\ call.op = "load_multiple_experiments"
    /\ call.file_paths = <<"/data/broken.json", "/data/run_a.json">>
    /\ Len(experiments) = 2
    /\ experiments[1].file_path = "zero.json"
    /\ experiments[2].file_path = "/data/run_a.json"
    /\ status_var = "Loaded 1 experiments"

\* C8: compare_experiments and plot_timeline with fewer than 2 loaded
\* records show a warning and compute nothing: the comparison figure, the
\* selected tab, the experiments list and current_experiment stay as they
\* were
C8_TooFewRecordsRefused ==
    [][(call'.op \in {"compare_experiments", "plot_timeline"}
         /\ Len(experiments) < 2) =>
          /\ dialog'.kind = "warning"
          /\ comp_fig' = comp_fig
          /\ tab' = tab
          /\ experiments' = experiments
          /\ current_experiment' = current_experiment]_vars

C8_Witness ==
    /\ call.op = "compare_experiments"
    /\ Len(experiments) = 1
    /\ dialog.kind = "warning"
    /\ tab = 3
    /\ current_experiment = experiments[1]

-----------------------------------------------------------------------------
(* the three state listings applied to one raw_counts *)

MaxStates == 2

StateLabels == {"0101", "0100", "1101", "0000", "1111", "0011"}

CountValues == {0, 1, 2}

\* the raw_counts of up to MaxStates distinct labels, in any document order
CountPairs ==
    UNION {{[i \in 1..k |-> <<labels[i], Num(counts[i])>>] :
               labels \in {l \in [1..k -> StateLabels] :
                              \A i, j \in 1..k : i # j => l[i] # l[j]},
               counts \in [1..k -> CountValues]} : k \in 0..MaxStates}

\* raw_counts with a negative count, with a negative total, of nine states,
\* with a count that is no number, with two equal counts around a greater
\* one, and the example of the format's section 5
OddCounts ==
    << << <<"0101", Num(-1)>>, <<"0100", Num(3)>> >>,
       << <<"0100", Num(1)>>, <<"1111", Num(2)>>, <<"0101", Num(1)>> >>,
       << <<"0101", Num(1)>>, <<"0100", Num(-3)>>, <<"1111", Num(1)>> >>,
       << <<"0000", Num(1)>>, <<"0001", Num(2)>>, <<"0010", Num(3)>>,
          <<"0011", Num(4)>>, <<"0100", Num(5)>>, <<"0101", Num(9)>>,
          <<"0110", Num(2)>>, <<"0111", Num(1)>>, <<"1101", Num(1)>> >>,
       << <<"0101", Str("12")>> >>,
       << <<"0101", Num(40)>>, <<"0100", Num(10)>>, <<"1111", Num(50)>> >> >>

StatesCall(pairs) ==
    [fn |-> "states",
     experiment |->
        parse_experiment_data(Obj(<< <<"raw_counts", Obj(pairs)>> >>),
                              "/data/counts.json")]

InitStates ==
    /\ InitGui
    /\ ret = Pending
    /\ \/ \E pairs \in CountPairs : arg = StatesCall(pairs)
       \/ \E i \in 1..Len(OddCounts) : arg = StatesCall(OddCounts[i])

\* the state rows of display_experiment_data(arg.experiment)
ApplyOverviewRows ==
    /\ arg.fn = "states"
    /\ ret = Pending
    /\ ret' = [fn |-> "display_experiment_data",
               raised |-> DisplayException(arg.experiment),
               rows |-> IF DisplayException(arg.experiment) = "none"
                        THEN display_text(arg.experiment).rows ELSE <<>>]
    /\ UNCHANGED <<arg, gui>>

\* the bars of plot_state_distribution with arg.experiment current
ApplyDistributionBars ==
    /\ arg.fn = "states"
    /\ ret = Pending
    /\ ret' = [fn |-> "plot_state_distribution",
               raised |-> BarsException(arg.experiment),
               rows |-> IF BarsException(arg.experiment) = "none"
                        THEN distribution_bars(arg.experiment) ELSE <<>>]
    /\ UNCHANGED <<arg, gui>>

\* the bars of generate_dashboard with arg.experiment current
ApplyDashboardBars ==
    /\ arg.fn = "states"
    /\ ret = Pending
    /\ ret' = [fn |-> "generate_dashboard",
               raised |-> BarsException(arg.experiment),
               rows |-> IF BarsException(arg.experiment) = "none"
                        THEN dashboard_bars(arg.experiment) ELSE <<>>]
    /\ UNCHANGED <<arg, gui>>

NextStates == ApplyOverviewRows \/ ApplyDistributionBars \/ ApplyDashboardBars

SpecStates == InitStates /\ [][NextStates]_vars

-----------------------------------------------------------------------------
(* claims about the state listings, checked under SpecStates *)

Listed == arg.fn = "states" /\ ret # Pending /\ ret.raised = "none"

\* the tag the format gives a label
DocumentedTag(label) ==
    CASE label = "0101" -> "primary"
      [] label \in {"0100", "1101"} -> "signature"
      [] label \in {"0000", "1111"} -> "classical"
      [] OTHER -> "other"

\* the tag a listing shows for its i-th entry: the suffix of the overview
\* row, or what the legend says of the colour of the bar
TagShown(result, i) ==
    IF result.fn = "display_experiment_data"
    THEN CASE result.rows[i].significance = "PRIMARY QHRF" -> "primary"
           [] result.rows[i].significance = "QHRF SIGNATURE" -> "signature"
           [] result.rows[i].significance = "CLASSICAL" -> "classical"
           [] result.rows[i].significance = "" -> "other"
    ELSE CASE legend_elements[result.rows[i].color] = "|0101> Primary QHRF"
                -> "primary"
           [] legend_elements[result.rows[i].color] = "QHRF Signature"
                -> "signature"
           [] legend_elements[result.rows[i].color] = "Classical States"
                -> "classical"
           [] legend_elements[result.rows[i].color] = "Other States" -> "other"

\* C11: in the data overview, the state-distribution plot and the dashboard
\* every listed state carries the tag of its label alone, whatever its rank
\* and count: '0101' primary, '0100' and '1101' signature, '0000' and '1111'
\* classical, any other label other
C11_TagByLabelAlone ==
    Listed =>
        \A i \in 1..Len(ret.rows) :
            TagShown(ret, i) = DocumentedTag(ret.rows[i].state)

C11_Witness ==
    /\ Listed
    /\ ret.fn = "generate_dashboard"
    /\ Len(ret.rows) = 2
    /\ ret.rows[1].state = "0011"
    /\ ret.rows[2].state = "1101"
    /\ TagShown(ret, 2) = "signature"
    /\ TagShown(ret, 1) = "other"

\* the counts of a raw_counts are no less than 0 and add up to more than 0
CountsPositive(pairs) ==
    /\ \A i \in 1..Len(pairs) : pairs[i][2].v >= 0
    /\ SumCounts(pairs) > 0

\* the 1-based place of the i-th pair of a raw_counts in the descending,
\* stable order: behind every pair with a greater count and every earlier
\* pair with the same count
PlaceOf(pairs, i) ==
    1 + Cardinality({j \in 1..Len(pairs) :
                        \/ pairs[j][2].v > pairs[i][2].v
                        \/ pairs[j][2].v = pairs[i][2].v /\ j < i})

\* C12: for a raw_counts of non-negative counts with a positive total, the
\* overview (ordered by count) and the plots (ordered by count/total) list
\* the states in the same sequence: descending probability, states of equal
\* probability in their document order; the dashboard shows its first eight
C12_StableDescendingOrder ==
    (Listed /\ CountsPositive(arg.experiment.raw_counts.v)) =>
        LET pairs == arg.experiment.raw_counts.v
            shown == IF ret.fn = "generate_dashboard" THEN Min(8, Len(pairs))
                     ELSE Len(pairs)
        IN /\ Len(ret.rows) = shown
           /\ \A i \in 1..Len(pairs) :
                 PlaceOf(pairs, i) <= shown =>
                    /\ ret.rows[PlaceOf(pairs, i)].state = pairs[i][1]
                    /\ ret.rows[PlaceOf(pairs, i)].prob
                          = <<pairs[i][2].v, SumCounts(pairs)>>

C12_Witness ==
    /\ Listed
    /\ ret.fn = "plot_state_distribution"
    /\ arg.experiment.raw_counts.v
          = << <<"0100", Num(1)>>, <<"1111", Num(2)>>, <<"0101", Num(1)>> >>
    /\ ret.rows[1].state = "1111"
    /\ ret.rows[2].state = "0100"
    /\ ret.rows[3].state = "0101"

-----------------------------------------------------------------------------
(* compare_experiments applied to one list of records *)

MaxCompared == 3

CoherenceValues == {-30, 0, 30, 35, 40}

DominantValues ==
    {Arr(<<Str("0101"), Num(40)>>), Arr(<<Str("0101"), Num(20)>>),
     Arr(<<Str("1111"), Num(50)>>)}

\* what a document of the list says: its coherence_score and dominant_state
SeriesEntries ==
    [coherence : CoherenceValues, dominant : DominantValues]

\* lists with a dominant_state of fewer than two elements
OddSeries ==
    << << [coherence |-> 30, dominant |-> Arr(<<Str("0101")>>)],
          [coherence |-> 30, dominant |-> Arr(<<Str("0101"), Num(40)>>)] >>,
       << [coherence |-> 30, dominant |-> Arr(<<Str("1111")>>)],
          [coherence |-> 35, dominant |-> Arr(<<Str("0101"), Num(40)>>)] >>,
       << [coherence |-> 30, dominant |-> Arr(<<>>)],
          [coherence |-> 35, dominant |-> Arr(<<Str("0101"), Num(40)>>)] >> >>

\* the records of a list of documents, as the loads append them
RecordsOf(series) ==
    [i \in 1..Len(series) |->
        parse_experiment_data(
            Obj(<< <<"coherence_score", Num(series[i].coherence)>>,
                   <<"dominant_state", series[i].dominant>> >>),
            "/data/run_" \o ToString(i) \o ".json")]

InitCompare ==
    /\ InitGui
    /\ ret = Pending
    /\ \/ \E n \in MinCompare..MaxCompared :
             \E series \in [1..n -> SeriesEntries] :
                arg = [fn |-> "compare", series |-> series]
       \/ \E i \in 1..Len(OddSeries) :
             arg = [fn |-> "compare", series |-> OddSeries[i]]

\* compare_experiments with the records of arg.series loaded
ApplyCompare ==
    /\ arg.fn = "compare"
    /\ ret = Pending
    /\ LET exps == RecordsOf(arg.series) IN
       ret' = [fn |-> "compare_experiments",
               raised |-> CompareException(exps),
               figure |-> IF CompareException(exps) = "none"
                          THEN comparison_figure(exps) ELSE BlankAxes]
    /\ UNCHANGED <<arg, gui>>

\* plot_timeline with the records of arg.series loaded
ApplyTimeline ==
    /\ arg.fn = "compare"
    /\ ret = Pending
    /\ ret' = [fn |-> "plot_timeline",
               raised |-> "none",
               figure |-> timeline_figure(RecordsOf(arg.series))]
    /\ UNCHANGED <<arg, gui>>

NextCompare == ApplyCompare \/ ApplyTimeline

SpecCompare == InitCompare /\ [][NextCompare]_vars

-----------------------------------------------------------------------------
(* claims about the comparison statistics, checked under SpecCompare *)

Compared ==
    /\ arg.fn = "compare"
    /\ ret # Pending
    /\ ret.fn = "compare_experiments"
    /\ ret.raised = "none"

\* what the i-th record of the list adds to the dominance series
Contribution(series, i) ==
    IF series[i].dominant.v[1] = Str("0101") THEN series[i].dominant.v[2].v
    ELSE 0

\* C13: each record adds its dominant-state probability to the dominance
\* series when its dominant label is '0101' and 0 otherwise; the mean is the
\* sum over the number of all records, and the variance the mean squared
\* deviation over all records (population standard deviation squared)
C13_DominanceOnly0101 ==
    Compared =>
        LET n == Len(arg.series)
            d == [i \in 1..n |-> Contribution(arg.series, i)]
            total == SumSeq(d)
            deviations == [i \in 1..n |-> (n * d[i] - total) * (n * d[i] - total)]
        IN /\ ret.figure.dominant_probs = d
           /\ ret.figure.dominance.mean = <<total, n>>
           /\ ret.figure.dominance.variance[2] = n * n
           /\ n * ret.figure.dominance.variance[1] = SumSeq(deviations)

C13_Witness ==
    /\ Compared
    /\ Len(arg.series) = 3
    /\ arg.series[1].dominant = Arr(<<Str("0101"), Num(40)>>)
    /\ arg.series[2].dominant = Arr(<<Str("1111"), Num(50)>>)
    /\ arg.series[3].dominant = Arr(<<Str("0101"), Num(20)>>)
    /\ ret.figure.dominant_probs = <<40, 0, 20>>
    /\ ret.figure.dominance.mean = <<60, 3>>

\* the mean of the coherence scores, or of the dominance series, is zero
ZeroMean(series) ==
    \/ SumSeq([i \in 1..Len(series) |-> series[i].coherence]) = 0
    \/ SumSeq([i \in 1..Len(series) |-> Contribution(series, i)]) = 0

WellFormedSeries(series) ==
    \A i \in 1..Len(series) : Len(series[i].dominant.v) = 2

\* C14: with a zero mean of the coherence scores or of the dominance series,
\* compare_experiments signals DegenerateStatistics and renders no CV and no
\* reproducibility tier
C14_ZeroMeanSignalled ==
    (/\ arg.fn = "compare"
     /\ ret # Pending
     /\ ret.fn = "compare_experiments"
     /\ WellFormedSeries(arg.series)
     /\ ZeroMean(arg.series)) =>
        /\ ret.raised = "DegenerateStatistics"
        /\ ret.figure = BlankAxes

\* all the records of the list have the same coherence_score
SameCoherence(series) ==
    \A i \in 1..Len(series) : series[i].coherence = series[1].coherence

-----------------------------------------------------------------------------
(* the experiments list under every handler of the window *)

IsPrefix(s, t) == Len(s) <= Len(t) /\ SubSeq(t, 1, Len(s)) = s

Discarded ==
    /\ experiments = <<>>
    /\ current_experiment = None
    /\ exp_listbox = <<>>

Loads == {"load_experiment", "load_multiple_experiments"}

\* C17: every step of clear_all ends with the experiments list empty,
\* current_experiment None and the listbox empty, whatever the state it
\* started in; and from such a state only a step of load_experiment or of
\* load_multiple_experiments brings a record back
C17_ClearDiscardsUntilLoad ==
    [][/\ call'.op = "clear_all" => Discarded'
       /\ Discarded /\ ~Discarded' => call'.op \in Loads]_vars

\* clear_all has run after a record was loaded, displayed and had its
\* dashboard thread started
C17_Witness ==
    /\ call.op = "clear_all"
    /\ Discarded
    /\ progress = "running"
    /\ Len(threads) > 0

-----------------------------------------------------------------------------
(* the dashboard thread and its callback *)

\* plot_dashboard has just started the progress bar and its thread
Dispatched ==
    /\ call.op = "plot_dashboard"
    /\ dialog = NoDialog
    /\ progress = "running"
    /\ status_var = "Generating comprehensive dashboard..."

\* the main loop has just run a callback of generate_dashboard
Completed ==
    /\ call.op = "after"
    /\ progress = "stopped"
    /\ \/ call.fn = "dashboard_done"
          /\ status_var = "Dashboard generated successfully"
       \/ call.fn = "dashboard_failed"
          /\ status_var = "Error generating dashboard"

\* C18: once plot_dashboard has started the progress bar and the thread, a
\* callback of generate_dashboard is eventually run by the main loop, and it
\* leaves the progress bar stopped and the status at 'Dashboard generated
\* successfully' or 'Error generating dashboard'; whether the generation
\* raised or not
C18_DashboardCompletes == Dispatched ~> Completed

\* a dashboard thread has cleared self.fig and has not yet drawn its axes
\* and posted its callback
WorkerInFigure ==
    \E i \in 1..Len(threads) :
       threads[i].kind = "dashboard" /\ threads[i].pc = "drawing"

\* a step of another flow that clears self.fig or draws into it: a plot
\* handler past its guard, clear_all, or the fig.clear() of another thread
OtherFlowWritesFigure ==
    \/ /\ call'.op \in {"plot_state_distribution", "plot_qhrf_signature",
                        "plot_performance_metrics"}
       /\ current_experiment # None
    \/ call'.op = "clear_all"
    \/ call'.op = "generate_dashboard" /\ call'.step = "clear"

\* C19: while a dashboard thread is between its self.fig.clear() and its
\* callback, no step of a UI handler (plot_state_distribution,
\* plot_qhrf_signature, plot_performance_metrics, clear_all) and no step of
\* a second thread clears self.fig or draws into it
C19_FigureHasOneWriter ==
    [][~(WorkerInFigure /\ OtherFlowWritesFigure)]_vars

-----------------------------------------------------------------------------
(* display and plots of the records the parser accepts *)

\* the handlers and steps that run display_experiment_data,
\* plot_state_distribution, plot_qhrf_signature or plot_dashboard with its
\* thread and callback
DisplayAndPlotSteps ==
    {"load_experiment", "on_experiment_select", "plot_state_distribution",
     "plot_qhrf_signature", "plot_dashboard", "generate_dashboard", "after"}

\* C20: display_experiment_data, plot_state_distribution,
\* plot_qhrf_signature and plot_dashboard, run on any record the parser
\* accepted (one whose raw_counts add to 0 included), complete or report the
\* failure: no exception escapes the handler that ran them
C20_NoExceptionEscapes ==
    call.op \in DisplayAndPlotSteps => uncaught = "none"

-----------------------------------------------------------------------------
(* the name of the records the parser returns, which are the records the   *)
(* loads append to the experiments list                                    *)

\* C21: every record the parser returns, and so every record of the
\* experiments list, has a name that is a string of at most 12 characters,
\* whether it comes from the job id or from the file name
C21_NameAtMost12Characters ==
    (Parsed /\ ret.t = "QHRFExperiment") =>
        ret.name.t = "str" /\ Len(ret.name.v) <= 12

\* the same for the documents whose job_id is a string or is absent
C21_StringNameAtMost12Characters ==
    (/\ Parsed
     /\ ret.t = "QHRFExperiment"
     /\ HasStringJobId(arg.data) \/ NoJobId(arg.data)) =>
        ret.name.t = "str" /\ Len(ret.name.v) <= 12

-----------------------------------------------------------------------------
\* the CV a series_stats record shows is below pct / 100: a quotient with a
\* negative mean is negative, nan and inf are below nothing
ShownCvBelow(stats, pct) ==
    /\ stats.cv.kind = "finite"
    /\ \/ stats.mean[1] < 0
       \/ stats.cv.squared[1] * 10000 < pct * pct * stats.cv.squared[2]

TierOfCv(stats) ==
    IF ShownCvBelow(stats, 10) THEN "EXCELLENT"
    ELSE IF ShownCvBelow(stats, 20) THEN "GOOD"
    ELSE "MODERATE"

\* C22: the reproducibility tier is a function of the coefficient of variation
\* of the coherence scores alone: EXCELLENT when CV < 0.10, GOOD when
\* 0.10 <= CV < 0.20, MODERATE otherwise; the dominance CV has no part in it
C22_TierFromCoherenceCv ==
    Compared => ret.figure.reproducibility = TierOfCv(ret.figure.coherence)

\* a GOOD tier (coherence 30 and 40, CV 1/7) beside a dominance series whose
\* CV is 1 (40 and 0)
C22_Witness ==
    /\ Compared
    /\ Len(arg.series) = 2
    /\ arg.series[1].coherence = 30
    /\ arg.series[2].coherence = 40
    /\ ret.figure.dominant_probs = <<40, 0>>
    /\ ~ShownCvBelow(ret.figure.dominance, 20)
    /\ ret.figure.reproducibility = "GOOD"

-----------------------------------------------------------------------------
\* C23: between two handlers current_experiment is None or an element of the
\* list of experiments, and it is None exactly when the list is empty, after
\* any sequence of loads, batch loads, selections and clears, the failing
\* loads included
C23_CurrentIsLoaded ==
    /\ current_experiment = None <=> experiments = <<>>
    /\ current_experiment # None =>
          \E i \in 1..Len(experiments) : experiments[i] = current_experiment

\* a load that failed on a list of two, with the first record selected
C23_Witness ==
    /\ call.op = "load_experiment"
    /\ status_var = "Error loading file"
    /\ Len(experiments) = 2
    /\ current_experiment = experiments[1]
    /\ current_experiment # experiments[2]

-----------------------------------------------------------------------------
\* the positions of a selection whose file opens and parses
ParsedAt(file_paths) == {i \in 1..Len(file_paths) : Loaded[file_paths[i]] # None}

\* the greatest element of a non-empty set of numbers
Greatest(S) == CHOOSE m \in S : \A n \in S : n <= m

\* C24: after a load_experiment that parses, the new record is the last
\* element of experiments and is current_experiment; after a
\* load_multiple_experiments that loaded at least one record,
\* current_experiment is the last element of experiments, the record of the
\* last file that loaded; a batch that loaded none leaves current_experiment
\* unchanged
C24_LoadMakesLastCurrent ==
    [][/\ (/\ call'.op = "load_experiment"
           /\ call'.file_path \in Paths
           /\ Loaded[call'.file_path] # None) =>
             /\ experiments' = Append(experiments, Loaded[call'.file_path])
             /\ current_experiment' = experiments'[Len(experiments')]
       /\ call'.op = "load_multiple_experiments" =>
             LET good == ParsedAt(call'.file_paths) IN
             IF good = {}
             THEN current_experiment' = current_experiment
             ELSE /\ Len(experiments') = Len(experiments) + Cardinality(good)
                  /\ current_experiment' = experiments'[Len(experiments')]
                  /\ current_experiment' =
                        Loaded[call'.file_paths[Greatest(good)]]]_vars

\* a batch of two whose first file loaded and whose second did not, on a list
\* that held a record already
C24_Witness ==
    /\ call.op = "load_multiple_experiments"
    /\ Len(call.file_paths) = 2
    /\ ParsedAt(call.file_paths) = {1}
    /\ Len(experiments) = 2
    /\ current_experiment = Loaded[call.file_paths[1]]
    /\ current_experiment = experiments[2]
    /\ current_experiment # experiments[1]

-----------------------------------------------------------------------------
\* C25: the dashboard a plot_dashboard request produces shows the experiment
\* that was current when the request was made: whatever selection or clear_all
\* runs between the start of the thread and its read of
\* self.current_experiment, the record the thread draws is the requested one
\* (so never None, and the thread does not fail on it)
C25_DashboardShowsRequested ==
    \A i \in 1..Len(threads) :
        (threads[i].kind = "dashboard" /\ threads[i].pc = "drawing") =>
            threads[i].exp = threads[i].requested

-----------------------------------------------------------------------------
\* C26: export_all writes the image file of the dashboard only after the
\* dashboard thread its call of plot_dashboard started has finished drawing:
\* no savefig of the last turn of the loop runs while a thread running
\* generate_dashboard is still alive
C26_DashboardSavedAfterDrawn ==
    [][(/\ call'.op = "export_all"
        /\ call'.step = "save"
        /\ Len(exported') > Len(exported)) =>
           ~\E j \in 1..Len(threads) : threads[j].kind = "dashboard"]_vars

\* C27: the number of plots export_all_plots reports as exported is the
\* number of image files it wrote: a turn of the loop whose savefig was
\* skipped (the visualization tab not selected) or whose plot function only
\* warned is not counted
C27_ReportedEqualsWritten ==
    \A k \in 1..Len(after_queue) :
        after_queue[k].fn = "export_done" =>
            after_queue[k].saved_files = Len(exported)

-----------------------------------------------------------------------------
\* the last handler was a load that got past its file dialog, so that it
\* started the progress indicator
LoadStarted ==
    \/ call.op = "load_experiment" /\ call.file_path # ""
    \/ call.op = "load_multiple_experiments" /\ Len(call.file_paths) > 0

\* C28: a load that starts the progress indicator stops it before its handler
\* ends: after load_experiment or load_multiple_experiments, whether every
\* file loaded, some failed or the display of the last record raised, the
\* progress indicator is stopped and the status no longer reads "Loading ..."
C28_LoadStopsProgress ==
    LoadStarted =>
        /\ progress = "stopped"
        /\ SubSeq(status_var, 1, 7) # "Loading"

\* the same of load_experiment alone, whose finally clause stops the indicator
C28_SingleLoadStopsProgress ==
    (call.op = "load_experiment" /\ call.file_path # "") =>
        /\ progress = "stopped"
        /\ SubSeq(status_var, 1, 7) # "Loading"

-----------------------------------------------------------------------------
\* the pass / fail results of a list of (criterion, score) pairs, in order
Results(pairs) == [i \in 1..Len(pairs) |-> pairs[i][2]]

\* the tier a performance line names
TierOf(line) ==
    IF line \in {"EXCELLENT", "EXCELLENT QHRF PERFORMANCE"} THEN "excellent"
    ELSE IF line \in {"GOOD", "GOOD QHRF PERFORMANCE"} THEN "good"
    ELSE IF line \in {"MODERATE", "MODERATE QHRF PERFORMANCE"} THEN "moderate"
    ELSE "none"

\* what an evaluation showed: its results in order, its count and its tier
Shown(text, pairs) ==
    [results |-> Results(pairs), passed |-> text.passed,
     tier |-> TierOf(text.performance)]

\* C29: for every record the three assessments (the data overview of
\* display_experiment_data, the panel of the dashboard, the dialog of
\* qhrf_assessment) yield the same six pass / fail results in the same order,
\* the same passed count and the same tier
C29_ThreeAssessmentsAgree ==
    Assessed =>
        LET e == arg.experiment
            overview == Shown(display_text(e), display_text(e).assessments)
            panel == Shown(dashboard_assessment_text(e),
                           dashboard_assessment_text(e).criteria)
            window == Shown(assessment_text(e), assessment_text(e).criteria)
            shown == IF ret.fn = "display_experiment_data"
                     THEN Shown(ret.text, ret.text.assessments)
                     ELSE Shown(ret.text, ret.text.criteria)
        IN /\ Len(shown.results) = 6
           /\ shown.tier # "none"
           /\ shown = overview
           /\ shown = panel
           /\ shown = window

\* the dashboard on a record whose coherence score is at its threshold and
\* whose other five criteria pass
C29_Witness ==
    /\ Assessed
    /\ ret.fn = "generate_dashboard"
    /\ arg.experiment.coherence_score = Num(30)
    /\ Results(ret.text.criteria) = <<TRUE, FALSE, TRUE, TRUE, TRUE, TRUE>>
    /\ ret.text.passed = 5
    /\ ret.text.performance = "GOOD"

-----------------------------------------------------------------------------
\* the handlers that ask for a current experiment first
GuardedHandlers ==
    {"plot_state_distribution", "plot_qhrf_signature",
     "plot_performance_metrics", "plot_dashboard", "export_all_plots",
     "generate_all_plots", "qhrf_assessment"}

\* the step showed the warning and changed nothing else of the window
WarnsOnly ==
    /\ dialog' = showwarning("Please load an experiment first")
    /\ uncaught' = "none"
    /\ UNCHANGED <<fig, comp_fig, tab, progress, status_var, experiments,
                   current_experiment, exp_listbox, threads, after_queue,
                   exported>>

\* C30: with current_experiment None, plot_state_distribution,
\* plot_qhrf_signature, plot_performance_metrics, plot_dashboard,
\* export_all_plots, generate_all_plots and qhrf_assessment only warn and
\* return: the figures, the selected tab, the progress indicator, the status,
\* the list and current_experiment are unchanged and no thread or timer is
\* started
C30_WarnsWithoutExperiment ==
    [][(current_experiment = None /\ call'.op \in GuardedHandlers) =>
           WarnsOnly]_vars

\* generate_all_plots warning on a window that a dashboard thread drew into
\* after clear_all, with the progress indicator still running
C30_Witness ==
    /\ call.op = "generate_all_plots"
    /\ current_experiment = None
    /\ dialog = showwarning("Please load an experiment first")
    /\ fig.kind = "drawn"
    /\ progress = "running"
    /\ threads = <<>>
    /\ after_queue = <<>>

=============================================================================
